---- MODULE Spec2Model ----
(***************************************************************************)
(* Model of src/src-python/main.py (resonance-stream translation sidecar): *)
(* the nickname cache (NicknameManager), the agreement corrector           *)
(* (fix_korean_josa), the span protector (preprocess_chunking) and the     *)
(* batch pipeline (process_batch_inference).                               *)
(*                                                                         *)
(* Text is a sequence of Unicode code points (Python str).  The non-ASCII  *)
(* literals of main.py are stored in the file as UTF-8 bytes read through  *)
(* code page 1254; the characters named below are the decoded ones (the    *)
(* Hangul block U+AC00..U+D7A3, the eight particles, the marker U+1F4A0).  *)
(* None is the one-element sequence <<-1>>, which is no string.            *)
(***************************************************************************)
EXTENDS Integers, Sequences, FiniteSets, TLC

VARIABLES
    limit,      \* NicknameManager.limit
    nick_map,   \* NicknameManager.nick_map: OrderedDict as a sequence of <<name, romaji>>
    calls,      \* history: the arguments <<jp_name, romaji>> of every update call so far
    snaps,      \* history: nick_map after every update call so far
    evicted,    \* history: per update call, the names removed by popitem ({} if none)
    josa_pc,    \* fix_korean_josa under test: "idle", "in", "once", "twice"
    josa_in,    \* the text handed to fix_korean_josa
    josa_out,   \* fix_korean_josa(josa_in)
    josa_out2,  \* fix_korean_josa(josa_out)
    ck_pc,      \* preprocess_chunking under test: "idle", "file", "loaded", "done"
    ck_file,    \* the dictionary file load_dictionary reads
    ck_dict,    \* TranslationManager.custom_dict and .dict_pattern
    ck_text,    \* the text handed to preprocess_chunking
    ck_nicks,   \* the nickname snapshot handed to preprocess_chunking
    ck_out,     \* the result of preprocess_chunking
    bt_pc,      \* process_batch_inference under test: "idle", "ready", "done"
    bt_dict,    \* the dictionary state of the TranslationManager serving batches
    bt_msgs,    \* the messages of the batch processed
    bt_before,  \* nick_map when the batch arrived
    bt_out,     \* what process_batch_inference computed and returned
    mn_pc,      \* main: "idle", "run"
    mn_boot,    \* the dictionary file TranslationManager.__init__ found
    mn_dict,    \* manager.custom_dict and manager.dict_pattern in main
    mn_args,    \* the flags main was started with: --debug, --diagnostics
    mn_in,      \* the lines of stdin the loop has not got, each with what its handling meets
    mn_done,    \* history: the lines the loop has got, and the line readline raised on
    mn_marks,   \* history: per line read, the length of mn_out when its handling ended
    mn_out,     \* the JSON records printed to stdout so far
    mn_alive    \* main has not returned

cacheVars == <<limit, nick_map, calls, snaps, evicted>>
josaVars == <<josa_pc, josa_in, josa_out, josa_out2>>
chunkVars == <<ck_pc, ck_file, ck_dict, ck_text, ck_nicks, ck_out>>
batchVars == <<bt_pc, bt_dict, bt_msgs, bt_before, bt_out>>
mainVars == <<mn_pc, mn_boot, mn_dict, mn_args, mn_in, mn_done, mn_marks, mn_out, mn_alive>>
vars == <<cacheVars, josaVars, chunkVars, batchVars, mainVars>>

----------------------------------------------------------------------------
(* Bounds *)
MaxLimit == 2
MaxNames == 4
MaxCalls == 5
MaxJosaLen == 4
MaxWideLen == 3
MaxNarrowLen == 5
MaxKeyText == 4
MaxDictSize == 3
MaxBatchText == 3
MaxDirect == 2

----------------------------------------------------------------------------
(* Python values *)
None == <<-1>>
EmptyStr == <<>>

\* A key the JSON object does not have (dict.get then gives its default).
Absent == <<-2>>

\* Python truthiness of an optional string: `not x` holds for None and "".
Falsy(x) == x = None \/ x = EmptyStr

\* Names handed to the cache: one-character strings (code points 0x3041..).
CacheNames == { <<12352 + i>> : i \in 1..MaxNames }
CacheVals  == { <<65>>, <<66>> }

\* The transliterations a name is handed in with: the first name comes with
\* either value, so that an entry is also updated to another value; the
\* other names with one.
CacheValsOf(n) == IF n = <<12353>> THEN CacheVals ELSE { <<65>> }

----------------------------------------------------------------------------
(* collections.OrderedDict, as used by NicknameManager *)

od_keys(m) == [i \in 1..Len(m) |-> m[i][1]]

od_has(m, k) == \E i \in 1..Len(m) : m[i][1] = k

od_get(m, k) == m[CHOOSE i \in 1..Len(m) : m[i][1] = k][2]

IsKey(e, k) == e[1] = k

\* OrderedDict.move_to_end(k): the entry goes to the last position.
od_move_to_end(m, k) ==
    LET NotK(e) == e[1] # k
        IsK(e) == e[1] = k
    IN SelectSeq(m, NotK) \o SelectSeq(m, IsK)

\* d[k] = v: an existing key keeps its position, a new key is appended.
od_setitem(m, k, v) ==
    IF od_has(m, k)
    THEN [i \in 1..Len(m) |-> IF m[i][1] = k THEN <<k, v>> ELSE m[i]]
    ELSE Append(m, <<k, v>>)

\* popitem(last=False): removes the first entry.
od_popfirst(m) == Tail(m)

----------------------------------------------------------------------------
(* NicknameManager.update *)

\* Mutant: the recency bump is missing (plain FIFO).
update_touch_fifo(m, jp_name) == m

update_touch(m, jp_name) ==
    IF od_has(m, jp_name) THEN od_move_to_end(m, jp_name) ELSE m

\* Mutant: the size test is off by one.
update_needs_evict_off(m, lim) == Len(m) > lim + 1

update_needs_evict(m, lim) == Len(m) > lim

\* Mutant: eviction pops the most recently used end.
update_evict_last(m) == SubSeq(m, 1, Len(m) - 1)

update_evict(m) == od_popfirst(m)

\* Mutant: the guard on an empty name is missing.
update_skip_never(jp_name) == FALSE

update_skip(jp_name) == Falsy(jp_name)

\* The map before the size test of update.
update_inserted(m, jp_name, romaji) == od_setitem(update_touch(m, jp_name), jp_name, romaji)

update(m, lim, jp_name, romaji) ==
    IF update_skip(jp_name) THEN m
    ELSE LET m2 == update_inserted(m, jp_name, romaji)
         IN IF update_needs_evict(m2, lim) THEN update_evict(m2) ELSE m2

\* The names popitem removed in that call.
update_popped(m, lim, jp_name, romaji) ==
    LET after == update(m, lim, jp_name, romaji)
        before == IF update_skip(jp_name) THEN m ELSE update_inserted(m, jp_name, romaji)
    IN { before[i][1] : i \in { j \in 1..Len(before) : ~od_has(after, before[j][1]) } }

----------------------------------------------------------------------------
(* The cache as a state machine: any sequence of update calls *)

JosaIdle == josa_pc = "idle" /\ josa_in = <<>> /\ josa_out = <<>> /\ josa_out2 = <<>>

ChunkIdle ==
    /\ ck_pc = "idle" /\ ck_file = <<>> /\ ck_dict = <<>>
    /\ ck_text = <<>> /\ ck_nicks = <<>> /\ ck_out = <<>>

BatchIdle ==
    /\ bt_pc = "idle" /\ bt_dict = <<>> /\ bt_msgs = <<>>
    /\ bt_before = <<>> /\ bt_out = <<>>

MainIdle ==
    /\ mn_pc = "idle" /\ mn_boot = <<>> /\ mn_dict = <<>> /\ mn_in = <<>>
    /\ mn_args = [debug |-> FALSE, diagnostics |-> FALSE]
    /\ mn_done = <<>> /\ mn_marks = <<>> /\ mn_out = <<>> /\ mn_alive = TRUE

InitCache ==
    /\ limit \in 1..MaxLimit
    /\ nick_map = <<>>
    /\ calls = <<>>
    /\ snaps = <<>>
    /\ evicted = <<>>
    /\ JosaIdle
    /\ ChunkIdle
    /\ BatchIdle
    /\ MainIdle

Update(jp_name, romaji) ==
    /\ Len(calls) < MaxCalls
    /\ nick_map' = update(nick_map, limit, jp_name, romaji)
    /\ calls' = Append(calls, <<jp_name, romaji>>)
    /\ snaps' = Append(snaps, nick_map')
    /\ evicted' = Append(evicted, update_popped(nick_map, limit, jp_name, romaji))
    /\ UNCHANGED <<limit, josaVars, chunkVars, batchVars, mainVars>>

UpdateNamed == \E n \in CacheNames : \E v \in CacheValsOf(n) : Update(n, v)

UpdateEmpty == \E n \in {None, EmptyStr} : Update(n, <<65>>)

NextCache == UpdateNamed \/ UpdateEmpty

SpecCache == InitCache /\ [][NextCache]_vars

----------------------------------------------------------------------------
(* Reading the call history *)

\* The map before call t.
Before(t) == IF t = 1 THEN <<>> ELSE snaps[t - 1]

KeySet(m) == { m[i][1] : i \in 1..Len(m) }

\* Index of the latest call among the first u that named k (0 if none).
LastTouch(k, u) ==
    LET S == { i \in 1..u : calls[i][1] = k }
    IN IF S = {} THEN 0 ELSE CHOOSE i \in S : \A j \in S : j <= i

\* The entry of the map before call t whose latest update is the oldest.
Oldest(t) ==
    CHOOSE k \in KeySet(Before(t)) :
        \A k2 \in KeySet(Before(t)) : LastTouch(k, t - 1) <= LastTouch(k2, t - 1)

\* Call t inserts a name the cache does not hold.
InsertsNew(t) == ~Falsy(calls[t][1]) /\ ~od_has(Before(t), calls[t][1])

\* Calls t+1 .. t+j each insert a name never passed to update before.
FreshRun(t, j) ==
    \A i \in 1..j : /\ ~Falsy(calls[t + i][1])
                    /\ LastTouch(calls[t + i][1], t + i - 1) = 0

\* Call t re-touches the oldest entry of a full cache.
TouchesOldest(t) ==
    /\ Len(Before(t)) = limit
    /\ ~Falsy(calls[t][1])
    /\ od_has(Before(t), calls[t][1])
    /\ Oldest(t) = calls[t][1]

----------------------------------------------------------------------------
(* C1: after any sequence of update calls the cache holds at most `limit` *)
(* entries, in every state between calls.                                 *)
C1_SizeBounded ==
    /\ Len(nick_map) <= limit
    /\ \A t \in 1..Len(snaps) : Len(snaps[t]) <= limit

C1_Witness ==
    /\ Len(nick_map) = limit
    /\ \E t \in 1..Len(evicted) : evicted[t] # {}

(* C2: inserting a new name into a full cache removes exactly one entry,  *)
(* the one whose latest update is the oldest; every other entry and the   *)
(* new one remain; limit+1 distinct names leave limit entries without the *)
(* first-inserted name.                                                   *)
C2_EvictsOldest ==
    /\ \A t \in 1..Len(calls) :
        (InsertsNew(t) /\ Len(Before(t)) = limit) =>
            /\ evicted[t] = {Oldest(t)}
            /\ KeySet(snaps[t]) = (KeySet(Before(t)) \ {Oldest(t)}) \cup {calls[t][1]}
            /\ Len(snaps[t]) = limit
            /\ od_get(snaps[t], calls[t][1]) = calls[t][2]
            /\ \A k \in KeySet(Before(t)) \ {Oldest(t)} :
                   od_get(snaps[t], k) = od_get(Before(t), k)
    /\ (Len(calls) > limit /\ FreshRun(0, limit + 1)) =>
            /\ Len(snaps[limit + 1]) = limit
            /\ ~od_has(snaps[limit + 1], calls[1][1])

C2_Witness ==
    /\ limit >= 2
    /\ \E t \in 1..Len(calls) :
        /\ InsertsNew(t) /\ Len(Before(t)) = limit
        /\ Before(t)[1][1] # calls[1][1]
    /\ Len(calls) > limit /\ FreshRun(0, limit + 1)

(* C3: re-touching the oldest entry N of a full cache moves it to the     *)
(* most-recently-used end, and none of the evictions of the L fresh names *)
(* inserted afterwards removes N.                                         *)
C3_Original ==
    \A t \in 1..Len(calls) :
        TouchesOldest(t) =>
            /\ snaps[t][Len(snaps[t])][1] = calls[t][1]
            /\ \A j \in 1..limit :
                (t + j <= Len(calls) /\ FreshRun(t, j)) => calls[t][1] \notin evicted[t + j]

(* C3 as amended: the first L-1 fresh insertions after the re-touch each  *)
(* evict a name other than N; the L-th evicts N.                          *)
C3_Recency ==
    \A t \in 1..Len(calls) :
        TouchesOldest(t) =>
            /\ snaps[t][Len(snaps[t])][1] = calls[t][1]
            /\ \A j \in 1..limit :
                (t + j <= Len(calls) /\ FreshRun(t, j)) =>
                    /\ j < limit => (evicted[t + j] # {} /\ calls[t][1] \notin evicted[t + j])
                    /\ j = limit => evicted[t + j] = {calls[t][1]}

\* A cache of two entries: the oldest is re-touched, then two fresh names are
\* inserted; the first evicts the other entry, the second evicts N.
C3_Witness ==
    \E t \in 1..Len(calls) :
        /\ TouchesOldest(t)
        /\ limit >= 2
        /\ snaps[t][1][1] # calls[t][1]
        /\ t + limit <= Len(calls) /\ FreshRun(t, limit)
        /\ evicted[t + 1] # {} /\ calls[t][1] \notin evicted[t + 1]
        /\ evicted[t + limit] = {calls[t][1]}

----------------------------------------------------------------------------
(* Characters (code points) *)
HangulFirst == 44032   \* U+AC00, also the particle ga
HangulLast == 55203    \* U+D7A3
BatchimSlots == 28
ch_eul == 51012        \* U+C744
ch_reul == 47484       \* U+B97C
ch_i == 51060          \* U+C774
ch_ga == 44032         \* U+AC00
ch_eun == 51008        \* U+C740
ch_neun == 45716       \* U+B294
ch_wa == 50752         \* U+C640
ch_gwa == 44284        \* U+ACFC
ch_space == 32
ch_rparen == 41
ch_dot == 46
ch_comma == 44
ch_zero == 48
ch_a == 97
ch_Z == 90
ch_A == 65
ch_at == 64
\* Input characters that are no literal of the program.
ch_gak == HangulFirst + 1      \* U+AC01: final consonant, no particle
ch_sa == HangulFirst + 5292    \* U+C0AC: no final consonant, no particle
ch_one == ch_zero + 1
ch_B == ch_A + 1
ch_C == ch_A + 2
ch_D == ch_A + 3

\* All strings over A of length at most n.
Strs(A, n) == UNION { [1..m -> A] : m \in 0..n }

IsHangul(c) == HangulFirst <= c /\ c <= HangulLast
IsLower(c) == 97 <= c /\ c <= 122
IsUpper(c) == 65 <= c /\ c <= 90
IsDigit(c) == 48 <= c /\ c <= 57

----------------------------------------------------------------------------
(* JOSA_PATTERN = ([Hangul a-zA-Z0-9\)]+)(particle)(?![Hangul]) *)

\* The character class of group 1.
JosaWordChar(c) == IsHangul(c) \/ IsLower(c) \/ IsUpper(c) \/ IsDigit(c) \/ c = ch_rparen

\* The alternation of group 2.
JosaParticle(c) == c \in {ch_eul, ch_reul, ch_i, ch_ga, ch_eun, ch_neun, ch_wa, ch_gwa}

\* Mutant: the lookahead is missing.
JosaLookahead_none(s, p) == TRUE

\* The negative lookahead at position p (the position after the particle).
JosaLookahead(s, p) == p > Len(s) \/ ~IsHangul(s[p])

\* Length of the run of word characters starting at i.
JosaRun(s, i) ==
    LET Stop == { k \in 0..(Len(s) + 1) : i + k > Len(s) \/ ~JosaWordChar(s[i + k]) }
    IN CHOOSE k \in Stop : \A k2 \in Stop : k <= k2

\* A match attempt at i: group 1 is greedy and backtracks, so the longest word
\* of k characters followed by a particle and the lookahead wins; 0 if none.
JosaMatchAt(s, i) ==
    LET n == JosaRun(s, i)
        Ok == { k \in 1..n : /\ i + k <= Len(s)
                             /\ JosaParticle(s[i + k])
                             /\ JosaLookahead(s, i + k + 1) }
    IN IF Ok = {} THEN 0 ELSE CHOOSE k \in Ok : \A k2 \in Ok : k2 <= k

\* The matches of JOSA_PATTERN.sub: leftmost first, not overlapping; each is
\* <<start, length of the word>>.
RECURSIVE JosaMatches(_, _)
JosaMatches(s, i) ==
    LET H == { j \in i..Len(s) : JosaMatchAt(s, j) > 0 }
    IN IF H = {} THEN {}
       ELSE LET j == CHOOSE j \in H : \A j2 \in H : j <= j2
                k == JosaMatchAt(s, j)
            IN {<<j, k>>} \cup JosaMatches(s, j + k + 1)

----------------------------------------------------------------------------
(* fix_korean_josa *)

has_batchim(char) ==
    IF ~IsHangul(char) THEN FALSE
    ELSE ((char - HangulFirst) % BatchimSlots) # 0

\* Mutant: one entry of the table has its two forms swapped.
josa_mapping_typo(particle, has_final) ==
    IF particle = ch_eul THEN (IF has_final THEN ch_reul ELSE ch_eul)
    ELSE IF particle = ch_reul THEN (IF has_final THEN ch_eul ELSE ch_reul)
    ELSE IF particle \in {ch_i, ch_ga} THEN (IF has_final THEN ch_i ELSE ch_ga)
    ELSE IF particle \in {ch_eun, ch_neun} THEN (IF has_final THEN ch_eun ELSE ch_neun)
    ELSE IF particle \in {ch_wa, ch_gwa} THEN (IF has_final THEN ch_gwa ELSE ch_wa)
    ELSE particle

\* The mapping table of replace_callback; mapping.get(particle, particle).
josa_mapping(particle, has_final) ==
    IF particle \in {ch_eul, ch_reul} THEN (IF has_final THEN ch_eul ELSE ch_reul)
    ELSE IF particle \in {ch_i, ch_ga} THEN (IF has_final THEN ch_i ELSE ch_ga)
    ELSE IF particle \in {ch_eun, ch_neun} THEN (IF has_final THEN ch_eun ELSE ch_neun)
    ELSE IF particle \in {ch_wa, ch_gwa} THEN (IF has_final THEN ch_gwa ELSE ch_wa)
    ELSE particle

\* Mutant: the final consonant is read off the first character of the word.
josa_has_final_first(word) == has_batchim(word[1])

\* has_final of replace_callback.
josa_has_final(word) ==
    IF IsHangul(word[Len(word)]) THEN has_batchim(word[Len(word)]) ELSE FALSE

replace_callback(word, particle) ==
    word \o <<josa_mapping(particle, josa_has_final(word))>>

\* JOSA_PATTERN.sub(replace_callback, text) from position i on.
RECURSIVE JosaSub(_, _)
JosaSub(s, i) ==
    LET H == { j \in i..Len(s) : JosaMatchAt(s, j) > 0 }
    IN IF H = {} THEN SubSeq(s, i, Len(s))
       ELSE LET j == CHOOSE j \in H : \A j2 \in H : j <= j2
                k == JosaMatchAt(s, j)
            IN SubSeq(s, i, j - 1)
                 \o replace_callback(SubSeq(s, j, j + k - 1), s[j + k])
                 \o JosaSub(s, j + k + 1)

fix_korean_josa(text) == JosaSub(text, 1)

----------------------------------------------------------------------------
(* The agreement corrector applied to bounded inputs *)

JosaAlphabet ==
    {ch_eul, ch_reul, ch_i, ch_ga, ch_eun, ch_neun, ch_wa, ch_gwa, ch_gak, ch_a, ch_space}

JosaWide == JosaAlphabet \cup {ch_sa, ch_one, ch_Z, ch_rparen, ch_dot}

JosaNarrow == {ch_eul, ch_ga, ch_gak, ch_a, ch_space}

CacheIdle ==
    limit = 1 /\ nick_map = <<>> /\ calls = <<>> /\ snaps = <<>> /\ evicted = <<>>

InitJosa ==
    /\ CacheIdle
    /\ ChunkIdle
    /\ BatchIdle
    /\ MainIdle
    /\ josa_pc = "in"
    /\ josa_in \in Strs(JosaAlphabet, MaxJosaLen) \cup Strs(JosaWide, MaxWideLen)
                    \cup Strs(JosaNarrow, MaxNarrowLen)
    /\ josa_out = <<>>
    /\ josa_out2 = <<>>

Correct ==
    /\ josa_pc = "in"
    /\ josa_out' = fix_korean_josa(josa_in)
    /\ josa_pc' = "once"
    /\ UNCHANGED <<josa_in, josa_out2, cacheVars, chunkVars, batchVars, mainVars>>

CorrectAgain ==
    /\ josa_pc = "once"
    /\ josa_out2' = fix_korean_josa(josa_out)
    /\ josa_pc' = "twice"
    /\ UNCHANGED <<josa_in, josa_out, cacheVars, chunkVars, batchVars, mainVars>>

NextJosa == Correct \/ CorrectAgain

SpecJosa == InitJosa /\ [][NextJosa]_vars

----------------------------------------------------------------------------
(* C5: fix_korean_josa is idempotent on every string over Hangul          *)
(* syllables (the eight particles included), Latin letters, digits, ')'   *)
(* and separators.                                                        *)
C5_Idempotent == josa_pc = "twice" => josa_out2 = josa_out

C5_Witness ==
    /\ josa_pc = "twice"
    /\ josa_out # josa_in
    /\ Cardinality(JosaMatches(josa_in, 1)) >= 2

\* The particle the claim expects after a word whose last character is c.
C6_Expected(c, particle) ==
    LET final == IsHangul(c) /\ (c - 44032) % 28 # 0
    IN IF particle \in {ch_eul, ch_reul} THEN (IF final THEN ch_eul ELSE ch_reul)
       ELSE IF particle \in {ch_i, ch_ga} THEN (IF final THEN ch_i ELSE ch_ga)
       ELSE IF particle \in {ch_eun, ch_neun} THEN (IF final THEN ch_eun ELSE ch_neun)
       ELSE (IF final THEN ch_gwa ELSE ch_wa)

\* The positions of the particles of the matches in s.
C6_ParticlePos(s) == { m[1] + m[2] : m \in JosaMatches(s, 1) }

(* C6: for every match the particle written is decided by the last        *)
(* character of the word alone: the final-consonant form after a Hangul   *)
(* syllable with (code point - 44032) mod 28 # 0, the other form after    *)
(* any other character; the word and the text outside matches are kept.   *)
C6_ParticleByLastChar ==
    josa_pc \in {"once", "twice"} =>
        /\ Len(josa_out) = Len(josa_in)
        /\ \A p \in C6_ParticlePos(josa_in) :
            josa_out[p] = C6_Expected(josa_in[p - 1], josa_in[p])
        /\ \A p \in (1..Len(josa_in)) \ C6_ParticlePos(josa_in) :
            josa_out[p] = josa_in[p]

C6_Witness ==
    /\ josa_pc = "once"
    /\ \E p \in C6_ParticlePos(josa_in) :
        /\ josa_out[p] # josa_in[p]
        /\ ~IsHangul(josa_in[p - 1])
    /\ \E p \in C6_ParticlePos(josa_in) :
        /\ josa_out[p] # josa_in[p]
        /\ IsHangul(josa_in[p - 1]) /\ (josa_in[p - 1] - 44032) % 28 # 0

----------------------------------------------------------------------------
(* Python str operations on sequences of code points *)

\* str.isspace(), which is also \s of a str pattern.
IsSpace(c) ==
    \/ c \in 9..13 \/ c \in 28..32 \/ c = 133 \/ c = 160 \/ c = 5760
    \/ c \in 8192..8202 \/ c \in {8232, 8233, 8239, 8287, 12288}

\* \d of a str pattern: any Unicode decimal digit.
\* The digit zero of every run of ten decimal digits (Unicode category Nd):
\* ASCII, Arabic-Indic, Devanagari, ..., fullwidth, mathematical.
DecimalZeros ==
    { 48, 1632, 1776, 1984, 2406, 2534, 2662, 2790,
      2918, 3046, 3174, 3302, 3430, 3558, 3664, 3792,
      3872, 4160, 4240, 6112, 6160, 6470, 6608, 6784,
      6800, 6992, 7088, 7232, 7248, 42528, 43216, 43264,
      43472, 43504, 43600, 44016, 65296, 66720, 68912, 69734,
      69872, 69942, 70096, 70384, 70736, 70864, 71248, 71360,
      71472, 71904, 72016, 72784, 73040, 73120, 92768, 92864,
      93008, 120782, 120792, 120802, 120812, 120822, 123200, 123632,
      125264, 130032 }

\* The 660 decimal digits.
DecimalDigits == UNION { z..(z + 9) : z \in DecimalZeros }

IsDecimal(c) == c \in DecimalDigits

\* pat occurs in s at position i.
StartsAt(s, i, pat) ==
    /\ i + Len(pat) - 1 <= Len(s)
    /\ \A j \in 1..Len(pat) : s[i + j - 1] = pat[j]

\* `pat in s`.
Contains(s, pat) == \E i \in 1..(Len(s) + 1) : StartsAt(s, i, pat)

MinOf(S) == CHOOSE x \in S : \A y \in S : x <= y

\* The first position from i on where pat occurs in s (0: none).
FindFrom(s, i, pat) ==
    LET H == { j \in i..Len(s) : StartsAt(s, j, pat) }
    IN IF H = {} THEN 0 ELSE MinOf(H)

\* s.replace(old, new) for a non-empty old: leftmost, not overlapping.
RECURSIVE ReplaceFrom(_, _, _, _)
ReplaceFrom(s, i, old, new) ==
    LET j == FindFrom(s, i, old)
    IN IF j = 0 THEN SubSeq(s, i, Len(s))
       ELSE SubSeq(s, i, j - 1) \o new \o ReplaceFrom(s, j + Len(old), old, new)

str_replace(s, old, new) == ReplaceFrom(s, 1, old, new)

\* s.split(sep) for a non-empty sep, from position i on.
RECURSIVE SplitFrom(_, _, _)
SplitFrom(s, i, sep) ==
    LET j == FindFrom(s, i, sep)
    IN IF j = 0 THEN <<SubSeq(s, i, Len(s))>>
       ELSE <<SubSeq(s, i, j - 1)>> \o SplitFrom(s, j + Len(sep), sep)

str_split(s, sep) == SplitFrom(s, 1, sep)

\* s.strip(): from the first to the last character that is no whitespace.
str_strip(s) ==
    LET K == { i \in 1..Len(s) : ~IsSpace(s[i]) }
    IN IF K = {} THEN <<>>
       ELSE SubSeq(s, MinOf(K), CHOOSE i \in K : \A j \in K : j <= i)

\* str(n) for n >= 0.
RECURSIVE str_int(_)
str_int(n) == IF n < 10 THEN <<ch_zero + n>> ELSE str_int(n \div 10) \o <<ch_zero + (n % 10)>>

\* sep.join(parts).
RECURSIVE str_join(_, _)
str_join(sep, parts) ==
    IF parts = <<>> THEN <<>>
    ELSE IF Len(parts) = 1 THEN parts[1]
    ELSE parts[1] \o sep \o str_join(sep, Tail(parts))

----------------------------------------------------------------------------
(* TranslationManager.load_dictionary *)

\* The structural glyphs a key is tested against (`k not in "..."`).
StructuralGlyphs ==
    <<12304, 12305, 12300, 12301, 12302, 12303, 65288, 65289, 12296, 12297, 12298, 12299>>

\* Mutant: every key is kept.
dict_key_kept_all(k) == TRUE

dict_key_kept(k) == ~Contains(StructuralGlyphs, k)

\* The dictionary comprehension of load_dictionary over raw_dict.items().
dict_filter(raw_dict) ==
    LET Kept(e) == dict_key_kept(e[1])
    IN SelectSeq(raw_dict, Kept)

\* The keys of length n, in dictionary order.
KeysOfLen(d, n) ==
    LET Is(e) == Len(e[1]) = n
        sel == SelectSeq(d, Is)
    IN [i \in 1..Len(sel) |-> sel[i][1]]

RECURSIVE SortDown(_, _)
SortDown(d, n) == IF n = 0 THEN <<>> ELSE KeysOfLen(d, n) \o SortDown(d, n - 1)

MaxKeyLenOf(d) ==
    IF d = <<>> THEN 0
    ELSE LET L == { Len(d[i][1]) : i \in 1..Len(d) }
         IN CHOOSE n \in L : \A m \in L : m <= n

\* Mutant: the keys keep their dictionary order.
sorted_keys_unsorted(d) == [i \in 1..Len(d) |-> d[i][1]]

\* sorted(custom_dict.keys(), key=len, reverse=True): stable, longest first.
sorted_keys(d) == SortDown(d, MaxKeyLenOf(d))

\* No pattern compiled yet (dict_pattern = None).
NoPattern == [compiled |-> FALSE, keys |-> <<>>]

\* The dictionary state: custom_dict as a sequence of <<key, value>>,
\* dict_pattern as the alternation's keys in order.
NoDictionary == [custom_dict |-> <<>>, dict_pattern |-> NoPattern]

\* A dictionary file: "missing", "empty" (blank content), "malformed" (json.loads
\* or .items() raises) or "valid" with the items of its "data" object.
load_dictionary(st, file) ==
    IF file.kind \in {"missing", "empty", "malformed"} THEN st
    ELSE LET cd == dict_filter(file.data)
         IN [custom_dict |-> cd,
             dict_pattern |-> IF cd # <<>>
                              THEN [compiled |-> TRUE, keys |-> sorted_keys(cd)]
                              ELSE st.dict_pattern]

cd_has(cd, k) == \E i \in 1..Len(cd) : cd[i][1] = k

cd_get(cd, k) == cd[CHOOSE i \in 1..Len(cd) : cd[i][1] = k][2]

----------------------------------------------------------------------------
(* TranslationManager.preprocess_chunking *)

ch_marker == 128160                   \* U+1F4A0, the marker glyph
split_marker == <<ch_marker, 83, 80, 76, 73, 84, ch_marker>>   \* marker "SPLIT" marker
gl_touten == 12289                    \* U+3001 ideographic comma
gl_kuten == 12290                     \* U+3002 ideographic full stop
gl_nakaguro == 12539                  \* U+30FB middle dot
gl_wide_space == 12288                \* U+3000 ideographic space
cs_shu == 31278                       \* U+7A2E counter "kinds"
cs_nin == 20154                       \* U+4EBA counter "people"
cs_shuu == 21608                      \* U+5468 counter "laps"
cs_kai == 22238                       \* U+56DE counter "times"
un_jong == 51333                      \* U+C885
un_in == 51064                        \* U+C778
un_hoe == 54924                       \* U+D68C

\* NUM_PATTERNS: <<counter suffix, unit>> in order.
NUM_PATTERNS ==
    << <<cs_shu, un_jong>>, <<cs_nin, un_in>>, <<cs_shuu, un_hoe>>, <<cs_kai, un_hoe>> >>

\* Line 108: the four glyph replacements, in order.
normalize_glyphs(text) ==
    str_replace(str_replace(str_replace(str_replace(text,
        <<gl_touten>>, <<ch_comma, ch_space>>),
        <<gl_kuten>>, <<ch_dot, ch_space>>),
        <<gl_nakaguro>>, <<ch_comma, ch_space>>),
        <<gl_wide_space>>, <<ch_space>>)

\* Lines 109-110: every cached name occurring in the text is replaced, in the
\* iteration order of the map, each replacement working on the result of the last.
RECURSIVE nick_substitute(_, _)
nick_substitute(text, nicks) ==
    IF nicks = <<>> THEN text
    ELSE nick_substitute(
            IF Contains(text, nicks[1][1]) THEN str_replace(text, nicks[1][1], nicks[1][2])
            ELSE text,
            Tail(nicks))

\* The character class of RECRUIT_PATTERN.
RecruitChar(c) ==
    \/ IsUpper(c) \/ IsLower(c) \/ c \in 48..57
    \/ c \in 12352..12543 \/ c \in 19968..40879

\* Length of the longest run from i on of characters at the positions In.
RunLen(s, i, In) == MinOf({ k \in 0..(Len(s) + 1 - i) : i + k > Len(s) \/ (i + k) \notin In })

RecruitRun(s, i) == RunLen(s, i, { j \in i..Len(s) : RecruitChar(s[j]) })

SpaceRun(s, i) == RunLen(s, i, { j \in i..Len(s) : IsSpace(s[j]) })

DigitRun(s, i) == RunLen(s, i, { j \in i..Len(s) : IsDecimal(s[j]) })

\* (?:\s+[class]+)* at i: the length taken by the repeated group.
RECURSIVE RecruitGroups(_, _)
RecruitGroups(s, i) ==
    LET w == SpaceRun(s, i)
        c == RecruitRun(s, i + w)
    IN IF w >= 1 /\ c >= 1 THEN w + c + RecruitGroups(s, i + w + c) ELSE 0

\* Length of the match of RECRUIT_PATTERN at i (0: no match).
RecruitMatchLen(s, i) ==
    IF i <= Len(s) /\ s[i] = ch_at /\ RecruitRun(s, i + 1) >= 1
    THEN LET c == RecruitRun(s, i + 1)
         IN 1 + c + RecruitGroups(s, i + 1 + c)
    ELSE 0

\* Mutant: the alternation takes the shortest key that matches.
DictMatchKey_shortest(keys, s, i) ==
    LET Hit == { j \in 1..Len(keys) : StartsAt(s, i, keys[j]) }
    IN IF Hit = {} THEN 0 ELSE CHOOSE j \in Hit : \A j2 \in Hit : Len(keys[j]) <= Len(keys[j2])

\* The alternation of dict_pattern at i: the first key, in the order of the
\* pattern, that occurs at i; its index, 0 if none.
DictMatchKey(keys, s, i) ==
    LET Hit == { j \in 1..Len(keys) : StartsAt(s, i, keys[j]) }
    IN IF Hit = {} THEN 0 ELSE CHOOSE j \in Hit : \A j2 \in Hit : j <= j2

\* Length of the match of (\d+)suffix at i (0: no match).
NumMatchLen(suffix, s, i) ==
    IF i > Len(s) \/ ~IsDecimal(s[i]) THEN 0
    ELSE LET d == DigitRun(s, i)
         IN IF i + d <= Len(s) /\ s[i + d] = suffix THEN d + 1 ELSE 0

TagPhase == [kind |-> "tag", keys |-> <<>>, cd |-> <<>>, suffix |-> 0, unit |-> 0]
DictPhase(keys, cd) == [kind |-> "dict", keys |-> keys, cd |-> cd, suffix |-> 0, unit |-> 0]
NumPhase(suffix, unit) == [kind |-> "num", keys |-> <<>>, cd |-> <<>>, suffix |-> suffix, unit |-> unit]

\* Length of the match of the phase's pattern at i.
PhaseMatchLen(ph, s, i) ==
    IF ph.kind = "tag" THEN RecruitMatchLen(s, i)
    ELSE IF ph.kind = "dict"
    THEN LET j == DictMatchKey(ph.keys, s, i) IN IF j = 0 THEN 0 ELSE Len(ph.keys[j])
    ELSE NumMatchLen(ph.suffix, s, i)

\* The lambda of the phase: the value handed to protect for the match s[i..i+n-1].
\* The dictionary lambda raises KeyError on a key custom_dict lacks.
PhaseRaises(ph, s, i, n) == ph.kind = "dict" /\ ~cd_has(ph.cd, SubSeq(s, i, i + n - 1))

PhaseVal(ph, s, i, n) ==
    IF ph.kind = "tag" THEN SubSeq(s, i, i + n - 1)
    ELSE IF ph.kind = "dict" THEN cd_get(ph.cd, SubSeq(s, i, i + n - 1))
    ELSE SubSeq(s, i, i + n - 2) \o <<ph.unit>>

\* The placeholder protect issues when protected_count = n.
placeholder_of(n) == <<ch_marker>> \o str_int(n) \o <<ch_marker>>

\* protect(val): records the value under a new placeholder and returns the
\* text that replaces the match.  pm is protected_map, a sequence of
\* <<placeholder, value>>; protected_count is its length.
protect_map(pm, val) == Append(pm, <<placeholder_of(Len(pm)), val>>)

protect_text(pm) == split_marker \o placeholder_of(Len(pm)) \o split_marker

\* pattern.sub(lambda m: protect(...), text) from position i on; out is the
\* text produced so far.
RECURSIVE SubProtect(_, _, _, _, _)
SubProtect(ph, s, i, out, pm) ==
    LET H == { j \in i..Len(s) : PhaseMatchLen(ph, s, j) > 0 }
    IN IF H = {} THEN [text |-> out \o SubSeq(s, i, Len(s)), pm |-> pm, raised |-> FALSE]
       ELSE LET j == MinOf(H)
                n == PhaseMatchLen(ph, s, j)
            IN IF PhaseRaises(ph, s, j, n)
               THEN [text |-> out \o SubSeq(s, i, j - 1), pm |-> pm, raised |-> TRUE]
               ELSE SubProtect(ph, s, j + n, out \o SubSeq(s, i, j - 1) \o protect_text(pm),
                               protect_map(pm, PhaseVal(ph, s, j, n)))

\* One protection phase applied to the state of the call.
run_phase(ph, st) ==
    IF st.raised THEN st ELSE SubProtect(ph, st.text, 1, <<>>, st.pm)

RECURSIVE run_num_phases(_, _)
run_num_phases(pats, st) ==
    IF pats = <<>> THEN st
    ELSE run_num_phases(Tail(pats), run_phase(NumPhase(pats[1][1], pats[1][2]), st))

pm_has(pm, c) == \E i \in 1..Len(pm) : pm[i][1] = c

\* A dict assignment: the last value stored under the key is the one read.
pm_get(pm, c) ==
    LET S == { i \in 1..Len(pm) : pm[i][1] = c }
    IN pm[CHOOSE i \in S : \A j \in S : j <= i][2]

\* Lines 120-122: the text and the ledger after the three protection phases.
\* Line 121: the dictionary phase, run only if a pattern is compiled.
dict_phase(dict, st) ==
    IF dict.dict_pattern.compiled
    THEN run_phase(DictPhase(dict.dict_pattern.keys, dict.custom_dict), st)
    ELSE st

protect_phases(current_text, dict) ==
    run_num_phases(NUM_PATTERNS,
        dict_phase(dict,
            run_phase(TagPhase, [text |-> current_text, pm |-> <<>>, raised |-> FALSE])))

\* Line 124: the stripped, non-empty pieces between split markers.
raw_chunks_of(text) ==
    LET pieces == str_split(text, split_marker)
        stripped == [i \in 1..Len(pieces) |-> str_strip(pieces[i])]
        NonEmpty(c) == c # <<>>
    IN SelectSeq(stripped, NonEmpty)

\* Line 125: a piece that is a key of protected_map becomes a protected chunk
\* carrying the stored value.  A chunk is <<text, protected>>.
tag_chunks(raw, pm) ==
    [i \in 1..Len(raw) |->
        IF pm_has(pm, raw[i]) THEN <<pm_get(pm, raw[i]), TRUE>> ELSE <<raw[i], FALSE>>]

\* Lines 108-110: the text the protection phases work on.
substituted_text(text, stateful_nicks) ==
    nick_substitute(normalize_glyphs(text), stateful_nicks)

\* preprocess_chunking(text, stateful_nicks) under the loaded dictionary:
\* [raised, chunks].
\* Lines 124-125 on the outcome of the protection phases.
chunks_of(st) ==
    IF st.raised THEN [raised |-> TRUE, chunks |-> <<>>]
    ELSE [raised |-> FALSE, chunks |-> tag_chunks(raw_chunks_of(st.text), st.pm)]

\* text.replace of line 108 raises AttributeError on None.
preprocess_chunking(dict, text, stateful_nicks) ==
    IF text = None THEN [raised |-> TRUE, chunks |-> <<>>]
    ELSE chunks_of(protect_phases(substituted_text(text, stateful_nicks), dict))

----------------------------------------------------------------------------
(* The span protector applied to bounded inputs *)

\* Dictionary entries to draw from: keys over A..D, each with its own value
\* (a lower-case letter), in file order.
KeyUniverse ==
    << <<<<ch_A>>, <<ch_a>>>>,
       <<<<ch_C>>, <<ch_a + 1>>>>,
       <<<<ch_A, ch_B>>, <<ch_a + 2>>>>,
       <<<<ch_B, ch_C, ch_D>>, <<ch_a + 3>>>>,
       <<<<ch_B, ch_C>>, <<ch_a + 4>>>>,
       <<<<ch_D>>, <<ch_a + 5>>>>,
       <<<<ch_A, ch_B, ch_C>>, <<ch_a + 6>>>> >>

\* The entries of a sequence at the indices S, in order.
Pick(seq, S) ==
    LET In(e) == \E i \in S : seq[i] = e
    IN SelectSeq(seq, In)

DictFiles ==
    { [kind |-> "valid", data |-> Pick(KeyUniverse, S)] :
        S \in { T \in SUBSET (1..Len(KeyUniverse)) : Cardinality(T) <= MaxDictSize } }

\* Inputs that mix the phases.  Dictionaries: none, an ordinary key, a key
\* that is a letter of "SPLIT", a key that is a digit.
MixedFiles ==
    { [kind |-> "missing", data |-> <<>>],
      [kind |-> "valid", data |-> << <<<<ch_C>>, <<ch_a + 1>>>> >>],
      [kind |-> "valid", data |-> << <<<<84>>, <<ch_a + 2>>>> >>],
      [kind |-> "valid", data |-> << <<<<ch_zero>>, <<ch_a + 3>>>> >>] }

\* Texts: tags, a key, a counter, the kana of the nicknames, texts that hold
\* the marker glyph themselves, and counters written with the Arabic-Indic
\* digit U+0663 and the Extended Arabic-Indic digit U+06F5.
MixedTexts ==
    { <<ch_at, ch_A>>,
      <<ch_at, ch_A, ch_space, ch_at, ch_B>>,
      <<ch_C, ch_space, ch_at, ch_A>>,
      <<ch_at, ch_A, ch_dot, ch_C, ch_one, cs_nin>>,
      <<ch_C, ch_one, cs_kai>>,
      <<12354, 12354>>,
      <<12354, ch_space, ch_C>>,
      <<ch_marker, ch_zero, ch_marker>>,
      <<ch_marker, ch_zero, ch_marker, ch_space, ch_at, ch_A>>,
      <<ch_C, ch_marker, ch_at, ch_A>>,
      <<1635, cs_nin>>,
      <<ch_C, 1781, cs_kai>> }

\* Snapshots of the nickname cache: name and transliteration.
NickA == <<<<12354>>, <<ch_A>>>>
NickAA == <<<<12354, 12354>>, <<ch_A, ch_a>>>>
NickI == <<<<12356>>, <<ch_A + 8>>>>

MixedNicks == { <<>>, <<NickA>>, <<NickA, NickAA>>, <<NickAA, NickA>>, <<NickA, NickI>>, <<NickI, NickA>> }

InitChunk ==
    /\ CacheIdle
    /\ JosaIdle
    /\ BatchIdle
    /\ MainIdle
    /\ ck_pc = "file"
    /\ \/ /\ ck_file \in DictFiles
          /\ ck_text \in Strs({ch_A, ch_B, ch_C, ch_D}, MaxKeyText)
          /\ ck_nicks = <<>>
       \/ /\ ck_file \in MixedFiles
          /\ ck_text \in MixedTexts
          /\ ck_nicks \in MixedNicks
    /\ ck_dict = NoDictionary
    /\ ck_out = <<>>

\* TranslationManager.__init__ loading the dictionary.
LoadDictionary ==
    /\ ck_pc = "file"
    /\ ck_dict' = load_dictionary(ck_dict, ck_file)
    /\ ck_pc' = "loaded"
    /\ UNCHANGED <<ck_file, ck_text, ck_nicks, ck_out, cacheVars, josaVars, batchVars, mainVars>>

Chunk ==
    /\ ck_pc = "loaded"
    /\ ck_out' = preprocess_chunking(ck_dict, ck_text, ck_nicks)
    /\ ck_pc' = "done"
    /\ UNCHANGED <<ck_file, ck_dict, ck_text, ck_nicks, cacheVars, josaVars, batchVars, mainVars>>

NextChunk == LoadDictionary \/ Chunk

SpecChunk == InitChunk /\ [][NextChunk]_vars

----------------------------------------------------------------------------
(* Reading the chunk list of a text without whitespace, tags or counters, *)
(* under a dictionary whose values are pairwise distinct and no text      *)

\* The key whose value is v.
C7_KeyOf(cd, v) == cd[CHOOSE i \in 1..Len(cd) : cd[i][2] = v][1]

\* The number of characters of the text a chunk stands for.
C7_Width(cd, chunk) == IF chunk[2] THEN Len(C7_KeyOf(cd, chunk[1])) ELSE Len(chunk[1])

RECURSIVE C7_StartOf(_, _, _)
C7_StartOf(cd, chunks, i) ==
    IF i = 1 THEN 1 ELSE C7_StartOf(cd, chunks, i - 1) + C7_Width(cd, chunks[i - 1])

\* Chunk i is the replacement of key k at position p of the text.
C7_Replaces(cd, chunks, i, k, p) ==
    /\ chunks[i][2]
    /\ chunks[i][1] = cd_get(cd, k)
    /\ C7_StartOf(cd, chunks, i) = p

\* Key k at q overlaps the span of n characters at p.
C7_Overlaps(k, q, p, n) == q <= p + n - 1 /\ p <= q + Len(k) - 1

\* The longer key `long` occurs at p, has the other key `short` inside it, and
\* is the longest term applicable there: every other key occurrence that
\* overlaps it is strictly shorter.
C7_Case(cd, text, short, long, p) ==
    /\ cd_has(cd, short) /\ cd_has(cd, long)
    /\ short # long /\ Contains(long, short)
    /\ StartsAt(text, p, long)
    /\ \A i \in 1..Len(cd), q \in 1..Len(text) :
        (/\ StartsAt(text, q, cd[i][1])
         /\ C7_Overlaps(cd[i][1], q, p, Len(long))
         /\ <<cd[i][1], q>> # <<long, p>>) => Len(cd[i][1]) < Len(long)

(* C7: whenever one key is a substring of another and the longer key      *)
(* occurs in the text (as the longest term applicable there), that        *)
(* occurrence is replaced by the longer key's value, and the shorter      *)
(* key's value never replaces a part of it, also when further (shorter)   *)
(* keys overlap the occurrence.                                           *)
C7_LongestWins ==
    (ck_pc = "done" /\ ~ck_out.raised) =>
        LET cd == ck_dict.custom_dict
            chunks == ck_out.chunks
            K == { cd[i][1] : i \in 1..Len(cd) }
        IN \A short \in K, long \in K : \A p \in 1..Len(ck_text) :
            C7_Case(cd, ck_text, short, long, p) =>
                /\ \E i \in 1..Len(chunks) : C7_Replaces(cd, chunks, i, long, p)
                /\ \A i \in 1..Len(chunks), q \in p..(p + Len(long) - 1) :
                       ~C7_Replaces(cd, chunks, i, short, q)

\* The claim's example and the two-key case, which the code gets right.
C7_TwoKeys ==
    (ck_pc = "done" /\ Len(ck_dict.custom_dict) <= 2) => C7_LongestWins

----------------------------------------------------------------------------
(* process_batch_inference *)

\* Indices are 1-based here: message 1 is messages[0], prompt 1 is
\* ai_prompts_tokens[0].

\* TranslationManager.get_romaji on the names of the model: pykakasi's
\* Hepburn reading, capitalised, of the kana U+3042 ("A") and U+3044 ("I").
get_romaji(text) ==
    [i \in 1..Len(text) |->
        IF text[i] = 12354 THEN ch_A
        ELSE IF text[i] = 12356 THEN ch_A + 8
        ELSE text[i]]

\* msg.get("text", ""): the default for a message without the key, None for
\* a message whose text is null.
msg_text(msg) == IF msg.text = Absent THEN EmptyStr ELSE msg.text

\* re.search of line 150: the chunk has a Latin, kana, CJK or Hangul letter.
HasLetter(t) ==
    \E i \in 1..Len(t) :
        \/ IsLower(t[i]) \/ IsUpper(t[i])
        \/ t[i] \in 12352..12543 \/ t[i] \in 19968..40879
        \/ IsHangul(t[i])

\* Mutant: only the letter test decides, the protected flag is ignored.
batch_passes_letters_only(chunk) == ~HasLetter(chunk[1])

\* Line 150: the chunk bypasses the translator.
batch_passes(chunk) == chunk[2] \/ ~HasLetter(chunk[1])

\* Mutant: the prompt index is counted within the message only.
map_chunks_local(m, chunks, np) ==
    [c \in 1..Len(chunks) |->
        IF batch_passes(chunks[c])
        THEN [msg |-> m, chunk |-> c, passed |-> TRUE, text |-> chunks[c][1], index |-> 0]
        ELSE [msg |-> m, chunk |-> c, passed |-> FALSE, text |-> <<>>,
              index |-> Cardinality({ j \in 1..c : ~batch_passes(chunks[j]) })]]

\* Lines 149-155 for the chunks of message m, with np prompts collected before:
\* the chunk_mapping entries.  An entry is [msg, chunk, passed, text, index]:
\* the payload is the text of a chunk that bypasses the translator, or the
\* index of the prompt of a chunk that is sent.
map_chunks(m, chunks, np) ==
    [c \in 1..Len(chunks) |->
        IF batch_passes(chunks[c])
        THEN [msg |-> m, chunk |-> c, passed |-> TRUE, text |-> chunks[c][1], index |-> 0]
        ELSE [msg |-> m, chunk |-> c, passed |-> FALSE, text |-> <<>>,
              index |-> np + Cardinality({ j \in 1..c : ~batch_passes(chunks[j]) })]]

\* The prompts of those chunks (the chunk texts; the tokenizer is external).
prompts_of(chunks) ==
    LET Sent(ch) == ~batch_passes(ch)
        sel == SelectSeq(chunks, Sent)
    IN [i \in 1..Len(sel) |-> sel[i][1]]

\* Lines 143-144: the cache after the message's nickname is recorded.
batch_nick(nm, lim, msg) ==
    IF ~Falsy(msg.nickname) THEN update(nm, lim, msg.nickname, get_romaji(msg.nickname))
    ELSE nm

\* The state of the first loop: nick_map, the update calls made (their
\* arguments, the map after each, the names popped), the maps handed to
\* preprocess_chunking (maps), diagnostic_info (chunks), chunk_mapping
\* (mapping), the prompts and whether preprocess_chunking raised.

\* Lines 143-144 on the state: nm1 is the cache after them.
batch_note_nick(st, lim, msg, nm1) ==
    IF Falsy(msg.nickname) THEN [st EXCEPT !.maps = Append(@, nm1)]
    ELSE [st EXCEPT
            !.nick_map = nm1,
            !.maps = Append(@, nm1),
            !.calls = Append(@, <<msg.nickname, get_romaji(msg.nickname)>>),
            !.snaps = Append(@, nm1),
            !.evicted = Append(@, update_popped(st.nick_map, lim, msg.nickname,
                                                get_romaji(msg.nickname)))]

\* Lines 147-155 on the state: r is what preprocess_chunking returned for
\* message m.
batch_note_chunks(m, st, r) ==
    IF r.raised THEN [st EXCEPT !.raised = TRUE]
    ELSE [st EXCEPT
            !.chunks = Append(@, r.chunks),
            !.mapping = @ \o map_chunks(m, r.chunks, Len(st.prompts)),
            !.prompts = @ \o prompts_of(r.chunks)]

\* Lines 146-155 for message m, the nickname already recorded.
batch_chunk(dict, msg, m, st) ==
    batch_note_chunks(m, st, preprocess_chunking(dict, msg_text(msg), st.nick_map))

\* One pass of the first loop.
batch_message(dict, lim, msg, m, st) ==
    batch_chunk(dict, msg, m,
        batch_note_nick(st, lim, msg, batch_nick(st.nick_map, lim, msg)))

\* The first loop (lines 142-155) from message m on.
RECURSIVE batch_collect(_, _, _, _, _)
batch_collect(dict, lim, messages, m, st) ==
    IF m > Len(messages) \/ st.raised THEN st
    ELSE batch_collect(dict, lim, messages, m + 1,
                       batch_message(dict, lim, messages[m], m, st))

think_open == <<60, 116, 104, 105, 110, 107, 62>>        \* "<think>"
think_close == <<60, 47, 116, 104, 105, 110, 107, 62>>   \* "</think>"

\* re.sub(r'<think>.*?</think>', '', s, flags=re.DOTALL) from position i on.
RECURSIVE remove_think(_, _)
remove_think(s, i) ==
    LET a == FindFrom(s, i, think_open)
        b == IF a = 0 THEN 0 ELSE FindFrom(s, a + Len(think_open), think_close)
    IN IF a = 0 \/ b = 0 THEN SubSeq(s, i, Len(s))
       ELSE SubSeq(s, i, a - 1) \o remove_think(s, b + Len(think_close))

\* The value the table has for c, c itself when it has none.
table_get(table, c) ==
    IF \E k \in 1..Len(table) : table[k][1] = c
    THEN table[CHOOSE k \in 1..Len(table) : table[k][1] = c][2]
    ELSE c

\* kyujipy's table of new and old character forms, on the ideographs drawn
\* here: U+5B66 has the old form U+5B78; U+4EBA, U+6821 and U+56DE have one
\* form only.
KyujitaiTable == << <<23398, 23416>> >>

\* Line 175: every new-form character becomes its old form.
shinjitai_to_kyujitai(s) == [i \in 1..Len(s) |-> table_get(KyujitaiTable, s[i])]

\* The readings of the hanja package, on the ideographs drawn here: U+4EBA
\* is read U+C778, U+5B78 U+D559, U+6821 U+AD50, U+56DE U+D68C.  None of
\* these readings begins with a consonant the initial-sound rule changes.
HanjaTable ==
    << <<cs_nin, un_in>>, <<23416, 54617>>, <<26657, 44368>>, <<cs_kai, un_hoe>> >>

\* Line 176: hanja.translate(s, 'substitution') puts the Hangul reading in
\* the place of every ideograph and keeps every other character.
hanja_translate(s) == [i \in 1..Len(s) |-> table_get(HanjaTable, s[i])]

\* Lines 173-176: seg_out from the decoded output.
seg_out_of(decoded) ==
    hanja_translate(shinjitai_to_kyujitai(str_strip(remove_think(str_strip(decoded), 1))))

\* Mutant: the parts of message m come out in reverse chunk order.
parts_of_reversed(mapping, outs, m) ==
    LET Mine(e) == e.msg = m
        mine == SelectSeq(mapping, Mine)
        n == Len(mine)
    IN [i \in 1..n |->
            IF mine[n + 1 - i].passed THEN mine[n + 1 - i].text
            ELSE seg_out_of(outs[mine[n + 1 - i].index])]

\* Lines 169-177 and 182-183: the parts of message m, in chunk order.
parts_of(mapping, outs, m) ==
    LET Mine(e) == e.msg = m
        mine == SelectSeq(mapping, Mine)
    IN [i \in 1..Len(mine) |->
            IF mine[i].passed THEN mine[i].text ELSE seg_out_of(outs[mine[i].index])]

punct_chars == {46, 33, 63, 44, 126}     \* . ! ? , ~

\* re.sub(r'\s+([.!?,~])', r'\1', s): a run of whitespace directly before one
\* of the five characters is dropped: a whitespace character goes exactly when
\* the first character after it that is no whitespace is one of the five.
collapse_before_punct(s) ==
    LET Dropped(j) ==
            /\ IsSpace(s[j])
            /\ LET K == { k \in (j + 1)..Len(s) : ~IsSpace(s[k]) }
               IN K # {} /\ s[MinOf(K)] \in punct_chars
        keep == { j \in 1..Len(s) : ~Dropped(j) }
        F[n \in 0..Len(s)] ==
            IF n = 0 THEN <<>> ELSE IF n \in keep THEN Append(F[n - 1], s[n]) ELSE F[n - 1]
    IN F[Len(s)]

\* filter(None, parts).
non_empty(parts) ==
    LET NonEmpty(x) == x # <<>>
    IN SelectSeq(parts, NonEmpty)

\* Line 184: txt.
joined_text(parts) == collapse_before_punct(str_join(<<ch_space>>, non_empty(parts)))

\* Mutant: the agreement corrector is not run.
final_text_no_josa(parts) == str_strip(joined_text(parts))

\* Lines 184-185: final_txt.
final_text(parts) == str_strip(fix_korean_josa(joined_text(parts)))

\* Before any message is processed.
batch_start(nm) ==
    [nick_map |-> nm, calls |-> <<>>, snaps |-> <<>>, evicted |-> <<>>, maps |-> <<>>,
     chunks |-> <<>>, mapping |-> <<>>, prompts |-> <<>>, raised |-> FALSE]

\* Lines 157-201 on the state st of the first loop: gen is the outcome of
\* generator.generate_batch, [ok, outs]: it raises (ok = FALSE) or returns one
\* decoded output per prompt.  The record holds the state of the first loop,
\* the decoded outputs, txt of line 184 per message (txts) and final_results
\* (results).
batch_failed(st, gen) == st.raised \/ (st.prompts # <<>> /\ ~gen.ok)

\* Mutant: every result carries the pid of the first message.
batch_result_first_pid(st, messages, gen) ==
    [st EXCEPT !.raised = batch_failed(st, gen)] @@
    [results |->
        IF batch_failed(st, gen) THEN <<>>
        ELSE [m \in 1..Len(messages) |->
                [pid |-> messages[1].pid,
                 translated |-> final_text(parts_of(st.mapping, gen.outs, m))]],
     txts |->
        IF batch_failed(st, gen) THEN <<>>
        ELSE [m \in 1..Len(messages) |-> joined_text(parts_of(st.mapping, gen.outs, m))],
     outs |-> IF batch_failed(st, gen) \/ st.prompts = <<>> THEN <<>> ELSE gen.outs]

batch_result(st, messages, gen) ==
    [st EXCEPT !.raised = batch_failed(st, gen)] @@
    [results |->
        IF batch_failed(st, gen) THEN <<>>
        ELSE [m \in 1..Len(messages) |->
                [pid |-> messages[m].pid,
                 translated |-> final_text(parts_of(st.mapping, gen.outs, m))]],
     txts |->
        IF batch_failed(st, gen) THEN <<>>
        ELSE [m \in 1..Len(messages) |-> joined_text(parts_of(st.mapping, gen.outs, m))],
     outs |-> IF batch_failed(st, gen) \/ st.prompts = <<>> THEN <<>> ELSE gen.outs]

\* What generate_batch does with the prompts: "raise", "echo" (each prompt
\* comes back as it is) or "sample" (each prompt is answered with sample).
generate_batch(mode, sample, prompts) ==
    IF mode = "raise" THEN [ok |-> FALSE, outs |-> <<>>]
    ELSE IF mode = "echo" THEN [ok |-> TRUE, outs |-> prompts]
    ELSE [ok |-> TRUE, outs |-> [i \in 1..Len(prompts) |-> sample]]

\* Lines 157-201 with the generator behaving as mode says.
batch_finish(st, messages, mode, sample) ==
    batch_result(st, messages, generate_batch(mode, sample, st.prompts))

process_batch_inference(dict, lim, nm, messages, mode, sample) ==
    batch_finish(batch_collect(dict, lim, messages, 1, batch_start(nm)), messages, mode, sample)

----------------------------------------------------------------------------
(* Batches served by one TranslationManager and one NicknameManager *)

\* The nicknames requests carry: the kana U+3042 and U+3044.
BatchNames == { <<12354>>, <<12356>> }

\* The dictionary files the manager is constructed on: none, one Latin key,
\* one key whose value is a Korean noun ending in the syllable U+ACFC.
BatchFiles ==
    { [kind |-> "missing", data |-> <<>>],
      [kind |-> "valid", data |-> << <<<<ch_A>>, <<ch_a>>>> >>],
      [kind |-> "valid", data |-> << <<<<ch_C>>, <<ch_sa, ch_gwa>>>> >>] }

\* Texts beside the short ones over "A", "@" and " ": a dictionary key, a
\* counter, a nickname, an ideographic comma, a double space, Hangul with a
\* particle, a key next to a word, whitespace before a full stop (after a
\* word, inside a text, after a tag), and a message without the text key.
BatchPicked ==
    { <<ch_C>>, <<ch_one, cs_nin>>, <<12354>>, <<ch_A, gl_touten, ch_A>>,
      <<ch_A, ch_space, ch_space, ch_A>>, <<ch_ga, ch_eul>>,
      <<ch_C, ch_space, ch_A>>,
      <<ch_A, ch_space, ch_dot>>, <<ch_A, ch_space, ch_dot, ch_A>>,
      <<ch_at, ch_A, ch_space, ch_dot>>, Absent }

BatchShort == Strs({ch_A, ch_at, ch_space}, MaxBatchText)

Message(t, n, p) == [text |-> t, nickname |-> n, pid |-> p]

\* Texts of ideographs: U+4EBA alone, and U+5B66 U+6821.
BatchIdeographs == { <<cs_nin>>, <<23398, 26657>> }

BatchSingles ==
    { Message(t, None, <<55>>) : t \in BatchShort \cup BatchIdeographs }
    \cup { Message(t, n, <<55>>) : t \in BatchPicked, n \in {None, EmptyStr} \cup BatchNames }
    \cup { Message(None, n, <<55>>) : n \in {None, <<12354>>} }

BatchPairMsgs ==
    { Message(<<ch_A>>, <<12354>>, <<55>>), Message(<<ch_at, ch_A>>, None, <<55>>),
      Message(<<ch_C>>, <<12356>>, <<55>>), Message(<<12354>>, EmptyStr, <<55>>),
      Message(<<ch_C, ch_space, ch_at, ch_A>>, None, <<55>>) }

Batches ==
    { <<m>> : m \in BatchSingles }
    \cup { <<a, [b EXCEPT !.pid = <<56>>]>> : a \in BatchPairMsgs, b \in BatchPairMsgs }

\* A decoded output with a reasoning span, outer whitespace, a particle and
\* whitespace before punctuation.
GenSample ==
    <<ch_space>> \o think_open \o <<ch_a>> \o think_close
        \o <<ch_space, ch_ga, ch_eul, ch_space, ch_dot, ch_space>>

GenModes == {"raise", "echo", "sample"}

InitBatch ==
    /\ limit \in 1..MaxLimit
    /\ nick_map = <<>>
    /\ calls = <<>>
    /\ snaps = <<>>
    /\ evicted = <<>>
    /\ JosaIdle
    /\ ChunkIdle
    /\ bt_pc = "ready"
    /\ bt_dict \in { load_dictionary(NoDictionary, f) : f \in BatchFiles }
    /\ bt_msgs = <<>>
    /\ bt_before = <<>>
    /\ bt_out = <<>>
    /\ MainIdle

\* NicknameManager.update called on its own, before the batch arrives.
DirectUpdate ==
    /\ bt_pc = "ready"
    /\ Len(calls) < MaxDirect
    /\ \E n \in {None, EmptyStr, <<12354>>} :
            Update(n, IF Falsy(n) THEN <<ch_A>> ELSE get_romaji(n))

\* The batch has been processed: out is what process_batch_inference computed.
Served(messages, out) ==
    /\ bt_msgs' = messages
    /\ bt_before' = nick_map
    /\ bt_out' = out
    /\ nick_map' = out.nick_map
    /\ calls' = calls \o out.calls
    /\ snaps' = snaps \o out.snaps
    /\ evicted' = evicted \o out.evicted

\* main's batch_translate branch: one call of process_batch_inference.
ProcessBatch ==
    /\ bt_pc = "ready"
    /\ \E messages \in Batches, mode \in GenModes :
            Served(messages,
                   process_batch_inference(bt_dict, limit, nick_map, messages, mode, GenSample))
    /\ bt_pc' = "done"
    /\ UNCHANGED <<limit, bt_dict, josaVars, chunkVars, mainVars>>

NextBatch == DirectUpdate \/ ProcessBatch

SpecBatch == InitBatch /\ [][NextBatch]_vars

----------------------------------------------------------------------------
(* Reading a processed batch *)

\* The cache handed to preprocess_chunking for the message before m.
MapBefore(m) == IF m = 1 THEN bt_before ELSE bt_out.maps[m - 1]

(* C4: NicknameManager.update with an empty or absent name (None or the   *)
(* empty string) changes nothing: the map after the call is the map       *)
(* before it, entry for entry and in the same recency order, and nothing  *)
(* is evicted; and a message without a nickname leaves the cache as the   *)
(* message before it left it, so a batch leaves the cache as its last     *)
(* message did.                                                           *)
C4_EmptyNameNoOp ==
    /\ \A t \in 1..Len(calls) :
            Falsy(calls[t][1]) => snaps[t] = Before(t) /\ evicted[t] = {}
    /\ bt_pc = "done" =>
        /\ \A m \in 1..Len(bt_out.maps) :
                Falsy(bt_msgs[m].nickname) => bt_out.maps[m] = MapBefore(m)
        /\ nick_map = MapBefore(Len(bt_out.maps) + 1)

\* A call with an empty name on a full cache, then a batch holding a message
\* without nickname.
C4_Witness ==
    /\ bt_pc = "done"
    /\ \E t \in 1..Len(calls) : Falsy(calls[t][1]) /\ Len(Before(t)) = limit
    /\ \E m \in 1..Len(bt_out.maps) : Falsy(bt_msgs[m].nickname) /\ MapBefore(m) # <<>>

\* The text without its whitespace.
Squeeze(s) ==
    LET NotSpace(c) == ~IsSpace(c)
    IN SelectSeq(s, NotSpace)

\* Runs of whitespace collapsed to one space, outer whitespace trimmed.
WsNormalize(s) ==
    LET keep == { j \in 1..Len(s) : ~IsSpace(s[j]) \/ (j > 1 /\ ~IsSpace(s[j - 1])) }
        F[n \in 0..Len(s)] ==
            IF n = 0 THEN <<>>
            ELSE IF n \in keep
                 THEN Append(F[n - 1], IF IsSpace(s[n]) THEN ch_space ELSE s[n])
                 ELSE F[n - 1]
    IN str_strip(F[Len(s)])

\* The batch went through and the translator returned every prompt as it was.
C8_Identity == bt_pc = "done" /\ ~bt_out.raised /\ bt_out.outs = bt_out.prompts

\* The text holds a Han ideograph (CJK unified, extension A, compatibility).
HasIdeograph(t) ==
    \E i \in 1..Len(t) :
        t[i] \in 13312..19903 \/ t[i] \in 19968..40959 \/ t[i] \in 63744..64255

\* Nothing but tags is substituted in message m: no rewritten glyph, no cached
\* nickname, no marker glyph, no reasoning span, no ideograph outside a tag,
\* and, once the tags are protected, no dictionary key and no numeric counter
\* matches.
C8_Plain(m) ==
    LET text == msg_text(bt_msgs[m])
        t1 == run_phase(TagPhase, [text |-> text, pm |-> <<>>, raised |-> FALSE]).text
    IN /\ normalize_glyphs(text) = text
       /\ nick_substitute(text, bt_out.maps[m]) = text
       /\ ~Contains(text, <<ch_marker>>)
       /\ ~Contains(text, think_open)
       /\ \A c \in 1..Len(bt_out.chunks[m]) :
            bt_out.chunks[m][c][2] \/ ~HasIdeograph(bt_out.chunks[m][c][1])
       /\ \A i \in 1..Len(t1) :
            /\ bt_dict.dict_pattern.compiled =>
                    DictMatchKey(bt_dict.dict_pattern.keys, t1, i) = 0
            /\ \A k \in 1..Len(NUM_PATTERNS) : NumMatchLen(NUM_PATTERNS[k][1], t1, i) = 0

(* C8 as stated: for any text, the chunks translated by the identity and  *)
(* reassembled (join, whitespace-before-punctuation collapse, trim) give  *)
(* the whitespace-normalized original text, whether normalizing means     *)
(* collapsing runs of whitespace or what the reassembly itself does.      *)
C8_Original ==
    C8_Identity =>
        \A m \in 1..Len(bt_msgs) :
            str_strip(bt_out.txts[m]) \in
                { WsNormalize(msg_text(bt_msgs[m])),
                  str_strip(collapse_before_punct(msg_text(bt_msgs[m]))) }

(* C8: for a text in which nothing but tags is substituted and which has  *)
(* no ideograph outside a tag, the chunks translated by the identity and  *)
(* reassembled give the original text up to whitespace: the same          *)
(* characters in the same order once all whitespace is deleted from both. *)
C8_RoundTrip ==
    C8_Identity =>
        \A m \in 1..Len(bt_msgs) :
            C8_Plain(m) => Squeeze(bt_out.txts[m]) = Squeeze(msg_text(bt_msgs[m]))

\* A tag inside a word: two chunks, one protected and one translated, and a
\* reassembled text that differs from the original in whitespace.
C8_Witness ==
    /\ C8_Identity
    /\ \E m \in 1..Len(bt_msgs) :
        /\ C8_Plain(m)
        /\ Len(bt_out.chunks[m]) >= 2
        /\ \E c \in 1..Len(bt_out.chunks[m]) : bt_out.chunks[m][c][2]
        /\ bt_out.prompts # <<>>
        /\ str_strip(bt_out.txts[m]) # msg_text(bt_msgs[m])

(* C9: every prompt handed to the translator is the text of a chunk that  *)
(* preprocess_chunking tagged protected = False, and no chunk tagged      *)
(* protected = True has a prompt: its chunk_mapping entry carries the     *)
(* chunk text and no prompt index.                                        *)
C9_ProtectedNeverSent ==
    bt_pc = "done" =>
        LET o == bt_out
        IN /\ \A p \in 1..Len(o.prompts) :
                \E i \in 1..Len(o.mapping) :
                    /\ ~o.mapping[i].passed
                    /\ o.mapping[i].index = p
                    /\ o.chunks[o.mapping[i].msg][o.mapping[i].chunk] = <<o.prompts[p], FALSE>>
           /\ \A i \in 1..Len(o.mapping) :
                o.chunks[o.mapping[i].msg][o.mapping[i].chunk][2] =>
                    /\ o.mapping[i].passed
                    /\ o.mapping[i].text = o.chunks[o.mapping[i].msg][o.mapping[i].chunk][1]

\* A batch with a protected chunk and a prompt in the same message.
C9_Witness ==
    /\ bt_pc = "done"
    /\ \E i \in 1..Len(bt_out.mapping), j \in 1..Len(bt_out.mapping) :
        /\ bt_out.mapping[i].msg = bt_out.mapping[j].msg
        /\ bt_out.chunks[bt_out.mapping[i].msg][bt_out.mapping[i].chunk][2]
        /\ ~bt_out.mapping[j].passed

(* C10: for every message, the value of every protected chunk (the tag,   *)
(* the dictionary value, the digits with the unit word) is a contiguous   *)
(* substring of the message's final translated string.                    *)
C10_Verbatim ==
    (bt_pc = "done" /\ ~bt_out.raised) =>
        \A m \in 1..Len(bt_msgs) : \A c \in 1..Len(bt_out.chunks[m]) :
            bt_out.chunks[m][c][2] =>
                Contains(bt_out.results[m].translated, bt_out.chunks[m][c][1])

----------------------------------------------------------------------------
(* main: the request loop *)

\* A line of stdin with what its handling meets.  kind is "undecodable"
\* (readline raises on bytes that are no UTF-8), "blank", "malformed"
\* (json.loads raises), "array" (JSON that is no object: data.get raises) or
\* "object"; an object has cmd, possibly messages, text, nickname and pid.
\* gen is what generate_batch does while the line is handled, file is the
\* dictionary file load_dictionary finds then.
Line(kind, cmd, has_messages, messages, text, nickname, pid, gen, file) ==
    [kind |-> kind, cmd |-> cmd, has_messages |-> has_messages, messages |-> messages,
     text |-> text, nickname |-> nickname, pid |-> pid, gen |-> gen, file |-> file]

ErrorRecord(msg) == [type |-> "error", message |-> msg]     \* log_error
InfoRecord(msg) == [type |-> "info", message |-> msg]       \* log_info

\* What load_dictionary prints.
load_dictionary_log(file) ==
    <<InfoRecord("Loading dictionary from")>> \o
    (IF file.kind = "malformed" THEN <<ErrorRecord("Dictionary Load Error")>>
     ELSE IF file.kind = "valid" /\ dict_filter(file.data) # <<>>
     THEN <<InfoRecord("Dictionary ready")>>
     ELSE <<>>)

\* What main prints before the loop.
main_banner == <<InfoRecord("Python"), [type |-> "ready"], InfoRecord("Engine Ready")>>

\* Lines 246-247: the messages of a batch_translate request.
main_msgs(data) ==
    IF data.has_messages THEN data.messages
    ELSE IF ~Falsy(data.text) THEN <<Message(data.text, data.nickname, data.pid)>>
    ELSE <<>>

\* sys.stdout encodes UTF-8 (line 21): print raises UnicodeEncodeError on a
\* str that holds a surrogate code point.
HasSurrogate(t) == \E i \in 1..Len(t) : t[i] \in 55296..57343

\* The print of line 252 raises: json.dumps(..., ensure_ascii=False) hands
\* the pids and the translated strings to stdout as they are.
print_raises(results) ==
    \E k \in 1..Len(results) :
        HasSurrogate(results[k].pid) \/ HasSurrogate(results[k].translated)

\* Lines 187-199: diag_outputs, from what process_batch_inference computed.
diag_outputs(out, messages) ==
    [m \in 1..Len(messages) |->
        [pid |-> messages[m].pid,
         original |-> IF messages[m].text = Absent THEN None ELSE messages[m].text,
         breakdown |->
            [i \in 1..Len(out.chunks[m]) |->
                [locked |-> out.chunks[m][i][2], orig |-> out.chunks[m][i][1],
                 part |-> parts_of(out.mapping, out.outs, m)[i]]],
         final |-> out.results[m].translated]]

\* Lines 254-256: the debug records after a batch_result.  The elapsed time
\* of the performance record is left out.
main_debug(args, out, messages) ==
    (IF args.debug
     THEN <<[type |-> "debug", message |-> "[Performance]",
             msgs |-> Len(messages), ai |-> Len(out.prompts)]>>
     ELSE <<>>) \o
    (IF args.diagnostics
     THEN [m \in 1..Len(messages) |->
            [type |-> "debug", message |-> "[Diagnostics PID]",
             diag |-> diag_outputs(out, messages)[m]]]
     ELSE <<>>)

\* Lines 236-243: get_romaji raises on a nickname that is None, and the
\* print (ensure_ascii=False) raises on a surrogate in nickname or pid.
main_nickname_only(st, data) ==
    IF data.nickname = None \/ HasSurrogate(data.nickname) \/ HasSurrogate(data.pid)
    THEN [st EXCEPT !.out = Append(@, ErrorRecord("Inference Loop Error"))]
    ELSE [st EXCEPT !.out = Append(@, [type |-> "result", pid |-> data.pid,
                                       nickname |-> data.nickname,
                                       romaji |-> get_romaji(data.nickname)])]

\* Lines 250-256 and 263: out is what process_batch_inference computed; the
\* cache keeps what the call did to it also when the call or the print
\* raised.
main_batch_done(st, args, messages, out) ==
    [st EXCEPT
        !.nick_map = out.nick_map,
        !.calls = @ \o out.calls,
        !.snaps = @ \o out.snaps,
        !.evicted = @ \o out.evicted,
        !.out = IF out.raised \/ print_raises(out.results)
                THEN Append(@, ErrorRecord("Inference Loop Error"))
                ELSE Append(@, [type |-> "batch_result", results |-> out.results])
                        \o main_debug(args, out, messages)]

\* Line 262.
main_reload(st, file) ==
    [st EXCEPT !.dict = load_dictionary(@, file), !.out = @ \o load_dictionary_log(file)]

\* Lines 232-262 on a parsed object.
main_object(st, lim, args, data) ==
    IF data.cmd = "nickname_only" THEN main_nickname_only(st, data)
    ELSE IF data.cmd = "batch_translate"
    THEN IF main_msgs(data) = <<>> THEN st
         ELSE main_batch_done(st, args, main_msgs(data),
                process_batch_inference(st.dict, lim, st.nick_map, main_msgs(data),
                                        data.gen, GenSample))
    ELSE IF data.cmd = "reload" THEN main_reload(st, data.file)
    ELSE st

\* One pass of the while loop (lines 227-263), and line 264 when readline
\* raises outside the inner try.
main_line(st, lim, args, line) ==
    IF line.kind = "undecodable"
    THEN [st EXCEPT !.alive = FALSE, !.out = Append(@, ErrorRecord("Fatal Startup Error"))]
    ELSE IF line.kind = "blank" THEN st
    ELSE IF line.kind \in {"malformed", "array"}
    THEN [st EXCEPT !.out = Append(@, ErrorRecord("Inference Loop Error"))]
    ELSE main_object(st, lim, args, line)

\* What main holds between two lines.
main_state ==
    [dict |-> mn_dict, nick_map |-> nick_map, calls |-> calls, snaps |-> snaps,
     evicted |-> evicted, out |-> mn_out, alive |-> mn_alive]

----------------------------------------------------------------------------
(* The request loop fed with bounded input *)

MaxReqs == 2

NoFile == [kind |-> "missing", data |-> <<>>]
FileA == [kind |-> "valid", data |-> << <<<<ch_A>>, <<ch_a>>>> >>]
FileC == [kind |-> "valid", data |-> << <<<<ch_C>>, <<ch_sa, ch_gwa>>>> >>]

MainFiles ==
    { NoFile, [kind |-> "empty", data |-> <<>>], [kind |-> "malformed", data |-> <<>>],
      [kind |-> "valid", data |-> <<>>], FileA, FileC }

MainMsg1 == Message(<<ch_A>>, <<12354>>, <<55>>)
MainMsg2 == Message(<<ch_at, ch_A, ch_space, ch_C>>, None, <<56>>)

\* A message whose text is null, and one whose text is a lone surrogate
\* (json.loads accepts "\ud800").
MainMsgNull == Message(None, <<12354>>, <<55>>)
MainMsgSurrogate == Message(<<55296>>, None, <<55>>)

Other(kind) == Line(kind, "", FALSE, <<>>, None, None, None, "echo", NoFile)

MainLines ==
    { Other(k) : k \in {"undecodable", "blank", "malformed", "array", "object"} }
    \cup { Line("object", "nickname_only", FALSE, <<>>, None, n, <<55>>, "echo", NoFile) :
                n \in {None, <<12354>>, <<55296>>} }
    \cup { Line("object", "reload", FALSE, <<>>, None, None, None, "echo", f) : f \in MainFiles }
    \cup { Line("object", "batch_translate", TRUE, ms, None, None, None, g, NoFile) :
                ms \in {<<MainMsg1>>, <<MainMsg1, MainMsg2>>}, g \in {"echo", "raise"} }
    \cup { Line("object", "batch_translate", TRUE, ms, None, None, None, "echo", NoFile) :
                ms \in {<<>>, <<MainMsgNull>>, <<MainMsgSurrogate>>} }
    \cup { Line("object", "batch_translate", FALSE, <<>>, <<ch_A>>, None, <<57>>, g, NoFile) :
                g \in {"echo", "raise"} }
    \cup { Line("object", "batch_translate", FALSE, <<>>, EmptyStr, None, <<57>>, "echo", NoFile) }

InitMain ==
    /\ limit = MaxLimit
    /\ nick_map = <<>>
    /\ calls = <<>>
    /\ snaps = <<>>
    /\ evicted = <<>>
    /\ JosaIdle
    /\ ChunkIdle
    /\ BatchIdle
    /\ mn_pc = "run"
    /\ mn_boot \in {NoFile, FileA}
    /\ mn_dict = load_dictionary(NoDictionary, mn_boot)
    /\ mn_args \in [debug : BOOLEAN, diagnostics : BOOLEAN]
    /\ mn_in \in Strs(MainLines, MaxReqs)
    /\ mn_done = <<>>
    /\ mn_marks = <<>>
    /\ mn_out = load_dictionary_log(mn_boot) \o main_banner
    /\ mn_alive = TRUE

\* The loop has got the line and holds st; rest is what it has not got.
Handled(line, st, rest) ==
    /\ mn_dict' = st.dict
    /\ nick_map' = st.nick_map
    /\ calls' = st.calls
    /\ snaps' = st.snaps
    /\ evicted' = st.evicted
    /\ mn_out' = st.out
    /\ mn_alive' = st.alive
    /\ mn_in' = rest
    /\ mn_done' = Append(mn_done, line)
    /\ mn_marks' = Append(mn_marks, Len(st.out))

\* The sequence without its element k.
Without(seq, k) == SubSeq(seq, 1, k - 1) \o SubSeq(seq, k + 1, Len(seq))

\* The first line of stdin that is no UTF-8, 0 if there is none.
FirstUndecodable(lines) ==
    IF \A k \in 1..Len(lines) : lines[k].kind # "undecodable" THEN 0
    ELSE MinOf({ k \in 1..Len(lines) : lines[k].kind = "undecodable" })

\* One pass of the while loop.  sys.stdin (line 20) decodes the bytes it
\* reads from the pipe a chunk at a time, and the chunk holds whatever is in
\* the pipe then.  Either the next line is decoded and handled; or the chunk
\* reaches the first undecodable line, at once or after lines that arrived
\* with it: readline raises, those lines are never handled, and main returns
\* through line 264.
ReadLine ==
    /\ mn_pc = "run"
    /\ mn_alive
    /\ mn_in # <<>>
    /\ \/ /\ Head(mn_in).kind # "undecodable"
          /\ Handled(Head(mn_in), main_line(main_state, limit, mn_args, Head(mn_in)),
                     Tail(mn_in))
       \/ /\ FirstUndecodable(mn_in) # 0
          /\ Handled(mn_in[FirstUndecodable(mn_in)],
                     main_line(main_state, limit, mn_args, mn_in[FirstUndecodable(mn_in)]),
                     Without(mn_in, FirstUndecodable(mn_in)))
    /\ UNCHANGED <<limit, mn_pc, mn_boot, mn_args, josaVars, chunkVars, batchVars>>

NextMain == ReadLine

SpecMain == InitMain /\ [][NextMain]_vars

----------------------------------------------------------------------------
(* Reading what the loop printed *)

\* The records printed while line i was handled.
FirstOut(i) ==
    IF i = 1 THEN Len(load_dictionary_log(mn_boot) \o main_banner) + 1 ELSE mn_marks[i - 1] + 1

OutputsOf(i) == { mn_out[k] : k \in FirstOut(i)..mn_marks[i] }

IsBatch(line) == line.kind = "object" /\ line.cmd = "batch_translate"

(* C11: every batch_result printed for a batch_translate request has one  *)
(* entry per message of the request, in the order of the messages, entry  *)
(* k carrying the pid of message k (the pid of the request itself in the  *)
(* single-message form), and every nickname_only result carries the pid   *)
(* of its request.                                                        *)
C11_PidEchoed ==
    \A i \in 1..Len(mn_done) : \A e \in OutputsOf(i) :
        /\ e.type = "batch_result" =>
            /\ IsBatch(mn_done[i])
            /\ Len(e.results) = Len(main_msgs(mn_done[i]))
            /\ \A k \in 1..Len(e.results) : e.results[k].pid = main_msgs(mn_done[i])[k].pid
            /\ ~mn_done[i].has_messages => e.results[1].pid = mn_done[i].pid
        /\ e.type = "result" => e.pid = mn_done[i].pid

\* A batch of two messages with different pids answered, and a single-message
\* request or a nickname_only request answered in the same run.
C11_Witness ==
    /\ \E i \in 1..Len(mn_done) : \E e \in OutputsOf(i) :
            /\ e.type = "batch_result"
            /\ Len(e.results) = 2
            /\ e.results[1].pid # e.results[2].pid
    /\ \E i \in 1..Len(mn_done) : \E e \in OutputsOf(i) :
            \/ e.type = "batch_result" /\ ~mn_done[i].has_messages
            \/ e.type = "result"

\* The whole input, read or not.
AllLines == mn_done \o mn_in

\* The handling of the line raises whatever the state: it cannot be decoded
\* or parsed, the translation call fails, a message has a null text, or
\* get_romaji gets None.
Failing(line) ==
    \/ line.kind \in {"undecodable", "malformed", "array"}
    \/ IsBatch(line) /\ main_msgs(line) # <<>> /\ line.gen = "raise"
    \/ IsBatch(line) /\ \E k \in 1..Len(main_msgs(line)) : main_msgs(line)[k].text = None
    \/ line.kind = "object" /\ line.cmd = "nickname_only" /\ line.nickname = None

\* A request that asks for a response.
WellFormed(line) ==
    /\ line.kind = "object"
    /\ \/ line.cmd = "batch_translate" /\ main_msgs(line) # <<>>
       \/ line.cmd = "nickname_only"

\* Line i has been handled while main was running, and its response (or the
\* error of its own failure) is printed.
Answered(i) ==
    /\ Len(mn_done) >= i
    /\ \E e \in OutputsOf(i) : e.type \in {"batch_result", "result", "error"}

\* A line before line i failed.
AfterFailure(i) == \E j \in 1..(i - 1) : Failing(mn_done[j])

(* C12: a request that fails never ends the process: after a failing      *)
(* line main is still running, the loop reads on, and every well-formed   *)
(* request it has read after a failing line is answered.                  *)
C12_LoopGoesOn ==
    mn_pc = "run" =>
        /\ (\E j \in 1..Len(mn_done) : Failing(mn_done[j])) => mn_alive
        /\ \A i \in 1..Len(mn_done) :
                (AfterFailure(i) /\ WellFormed(mn_done[i])) => Answered(i)

\* The same for input whose lines can all be decoded.
C12_Decodable ==
    (mn_pc = "run" /\ \A k \in 1..Len(mn_done) : mn_done[k].kind # "undecodable") =>
        /\ mn_alive
        /\ \A i \in 1..Len(mn_done) :
                (AfterFailure(i) /\ WellFormed(mn_done[i])) => Answered(i)

\* A well-formed request answered after a request whose handling raised.
C12_Reached ==
    \E i \in 1..Len(mn_done) :
        /\ AfterFailure(i) /\ WellFormed(mn_done[i]) /\ ~Failing(mn_done[i])
        /\ \E e \in OutputsOf(i) : e.type = "batch_result"

\* The pids of the request of a line.
PidsOf(line) == { main_msgs(line)[k].pid : k \in 1..Len(main_msgs(line)) }

\* Line i is a batch_translate request that ended in an error while the
\* translation call was failing.
TranslationFailed(i) ==
    /\ IsBatch(mn_done[i]) /\ main_msgs(mn_done[i]) # <<>> /\ mn_done[i].gen = "raise"
    /\ \A e \in OutputsOf(i) : e.type # "batch_result"

(* C13: when the translation call fails for a request, an error response  *)
(* is printed that carries the pid of the failed request.                 *)
C13_ErrorCarriesPid ==
    \A i \in 1..Len(mn_done) :
        TranslationFailed(i) =>
            \E e \in OutputsOf(i) :
                /\ e.type = "error"
                /\ "pid" \in DOMAIN e
                /\ e.pid \in PidsOf(mn_done[i])

\* What the code does print then: one error record, without a pid.
C13_ErrorLogged ==
    \A i \in 1..Len(mn_done) :
        TranslationFailed(i) => OutputsOf(i) = {ErrorRecord("Inference Loop Error")}

\* The files load_dictionary has met so far: at construction, then one per
\* reload request handled.
LoadsSoFar ==
    LET IsReload(line) == line.kind = "object" /\ line.cmd = "reload"
        reloads == SelectSeq(mn_done, IsReload)
    IN <<mn_boot>> \o [k \in 1..Len(reloads) |-> reloads[k].file]

\* The most recently successfully loaded snapshot, without structural glyph
\* keys: the data of the last valid file, nothing if there was none.
LastSnapshot ==
    LET S == { k \in 1..Len(LoadsSoFar) : LoadsSoFar[k].kind = "valid" }
    IN IF S = {} THEN <<>>
       ELSE dict_filter(LoadsSoFar[CHOOSE k \in S : \A k2 \in S : k2 <= k].data)

\* The strings the compiled dict_pattern can match.
PatternKeys ==
    IF mn_dict.dict_pattern.compiled
    THEN { mn_dict.dict_pattern.keys[k] : k \in 1..Len(mn_dict.dict_pattern.keys) }
    ELSE {}

(* C14: after any sequence of initial load and reloads, the strings the   *)
(* compiled dict_pattern can match are the keys of custom_dict, and       *)
(* custom_dict is the most recently successfully loaded snapshot (minus   *)
(* structural glyph keys), so that every dictionary match has a value.    *)
C14_PatternIsSnapshot ==
    mn_pc = "run" =>
        /\ PatternKeys = KeySet(mn_dict.custom_dict)
        /\ mn_dict.custom_dict = LastSnapshot

\* What does hold: custom_dict alone is the last snapshot.
C14_DictIsSnapshot == mn_pc = "run" => mn_dict.custom_dict = LastSnapshot

----------------------------------------------------------------------------
(* Reading the final strings of a batch *)

\* The batch went through: final_results is there.
BatchDone == bt_pc = "done" /\ ~bt_out.raised

NoSpaceBeforePunct(t) ==
    \A k \in 1..(Len(t) - 1) : ~(IsSpace(t[k]) /\ t[k + 1] \in punct_chars)

NoSpaceRun(t) == \A k \in 1..(Len(t) - 1) : ~(IsSpace(t[k]) /\ IsSpace(t[k + 1]))

Trimmed(t) == t = <<>> \/ (~IsSpace(t[1]) /\ ~IsSpace(t[Len(t)]))

(* C15: for every message and any translator outputs, the final string    *)
(* has no whitespace directly before one of . ! ? , ~, has no two         *)
(* whitespace characters in a row, and has no whitespace at its ends.     *)
C15_Normalized ==
    BatchDone =>
        \A m \in 1..Len(bt_msgs) :
            /\ NoSpaceBeforePunct(bt_out.results[m].translated)
            /\ NoSpaceRun(bt_out.results[m].translated)
            /\ Trimmed(bt_out.results[m].translated)

\* What does hold: whitespace before punctuation is gone and the ends are
\* trimmed.
C15_CollapsedAndTrimmed ==
    BatchDone =>
        \A m \in 1..Len(bt_msgs) :
            /\ NoSpaceBeforePunct(bt_out.results[m].translated)
            /\ Trimmed(bt_out.results[m].translated)

----------------------------------------------------------------------------
(* Reading the particle boundary of fix_korean_josa *)

(* C16 as stated: a word-plus-particle match is never taken when the      *)
(* particle is directly followed by a character allowed in the word (a    *)
(* Hangul syllable, a Latin letter, a digit or a closing parenthesis).    *)
C16_Original ==
    josa_pc \in {"once", "twice"} =>
        \A p \in C6_ParticlePos(josa_in) :
            p = Len(josa_in) \/ ~JosaWordChar(josa_in[p + 1])

(* C16: a word-plus-particle match is never taken when the particle is    *)
(* directly followed by a Hangul syllable, and a character directly       *)
(* followed by a Hangul syllable is never rewritten.                      *)
C16_HangulBoundary ==
    josa_pc \in {"once", "twice"} =>
        /\ \A p \in C6_ParticlePos(josa_in) :
                p = Len(josa_in) \/ ~IsHangul(josa_in[p + 1])
        /\ Len(josa_out) = Len(josa_in)
        /\ \A i \in 1..(Len(josa_in) - 1) :
                IsHangul(josa_in[i + 1]) => josa_out[i] = josa_in[i]

\* A particle of the wrong form kept because a Hangul syllable follows it, and
\* a particle rewritten although a Latin letter follows it.
C16_Witness ==
    /\ josa_pc = "once"
    /\ \E i \in 2..(Len(josa_in) - 1) :
        /\ JosaParticle(josa_in[i]) /\ JosaWordChar(josa_in[i - 1])
        /\ IsHangul(josa_in[i + 1])
        /\ josa_mapping(josa_in[i], has_batchim(josa_in[i - 1])) # josa_in[i]
        /\ josa_out[i] = josa_in[i]
    /\ \E p \in C6_ParticlePos(josa_in) :
        /\ p < Len(josa_in)
        /\ IsLower(josa_in[p + 1])
        /\ josa_out[p] # josa_in[p]

----------------------------------------------------------------------------
(* Reading the phases of one preprocess_chunking call *)

\* The call of ck_text after the tag phase, after the dictionary phase, and
\* after all phases.
AfterTags ==
    run_phase(TagPhase, [text |-> substituted_text(ck_text, ck_nicks), pm |-> <<>>,
                         raised |-> FALSE])

AfterDict == dict_phase(ck_dict, AfterTags)

AfterAll == run_num_phases(NUM_PATTERNS, AfterDict)

\* The pieces of a text that are placeholders of the ledger pm, in order.
PlaceholdersIn(text, pm) ==
    LET Issued(c) == pm_has(pm, c)
    IN SelectSeq(raw_chunks_of(text), Issued)

\* The spans of the ledger pm are all in the chunk list: each placeholder is
\* one piece of the final text, in the order the placeholders had in the text
\* `before`, and its chunk is protected and carries the stored value.
SpansKept(before, pm) ==
    LET raw == raw_chunks_of(AfterAll.text)
    IN /\ PlaceholdersIn(AfterAll.text, pm) = PlaceholdersIn(before, pm)
       /\ \A k \in 1..Len(pm) :
            /\ Cardinality({ i \in 1..Len(raw) : raw[i] = pm[k][1] }) = 1
            /\ \A i \in 1..Len(raw) :
                    raw[i] = pm[k][1] => ck_out.chunks[i] = <<pm[k][2], TRUE>>

ChunkDone == ck_pc = "done" /\ ~ck_out.raised

\* The text handed in, after substitution, has no marker glyph of its own.
NoMarkerInText == ~Contains(substituted_text(ck_text, ck_nicks), <<ch_marker>>)

(* C17: for any text (here: without marker glyphs of its own) and any     *)
(* loaded dictionary, every span protected by the tag phase or the        *)
(* dictionary phase is in the returned chunk list as exactly one          *)
(* protected chunk carrying its stored replacement, in its original       *)
(* position: later phases never match inside a placeholder or a split     *)
(* marker.                                                                *)
C17_Opaque ==
    (ChunkDone /\ NoMarkerInText) =>
        /\ SpansKept(AfterTags.text, AfterTags.pm)
        /\ SpansKept(AfterDict.text, AfterDict.pm)

\* No dictionary key can match inside the text a placeholder or a split
\* marker is written with.
C17_KeysClear ==
    \A k \in 1..Len(ck_dict.custom_dict) : \A n \in 0..9 :
        LET key == ck_dict.custom_dict[k][1]
            written == split_marker \o placeholder_of(n) \o split_marker \o split_marker
        IN \A i \in 1..Len(key) : \A j \in 1..Len(written) : key[i] # written[j]

\* What does hold: with such keys, and a text without the marker glyph, the
\* spans are kept.
C17_OpaqueForClearKeys ==
    (ChunkDone /\ C17_KeysClear /\ NoMarkerInText) =>
        /\ SpansKept(AfterTags.text, AfterTags.pm)
        /\ SpansKept(AfterDict.text, AfterDict.pm)

\* The placeholders issued in the call are pairwise distinct.
DistinctPlaceholders(pm) ==
    \A k \in 1..Len(pm), k2 \in 1..Len(pm) : pm[k][1] = pm[k2][1] => k = k2

(* C18: within one call all placeholders issued are pairwise distinct,    *)
(* and a chunk is protected only if it stands for a span a protection     *)
(* phase replaced in this call: no placeholder stands for two chunks, so  *)
(* there are no more protected chunks than spans replaced, also when the  *)
(* text handed in holds something that looks like a placeholder.          *)
C18_NoCollision ==
    (ChunkDone /\ C17_KeysClear) =>
        LET raw == raw_chunks_of(AfterAll.text)
            pm == AfterAll.pm
        IN /\ DistinctPlaceholders(pm)
           /\ \A k \in 1..Len(pm) : Cardinality({ i \in 1..Len(raw) : raw[i] = pm[k][1] }) <= 1
           /\ Cardinality({ i \in 1..Len(ck_out.chunks) : ck_out.chunks[i][2] }) <= Len(pm)

\* What does hold: the counter makes the placeholders of one call distinct.
C18_Distinct == ChunkDone => DistinctPlaceholders(AfterAll.pm)

\* The same as C18 for text without marker glyphs of its own.
C18_NoCollisionWithoutMarkers ==
    (ChunkDone /\ C17_KeysClear /\ NoMarkerInText) =>
        LET raw == raw_chunks_of(AfterAll.text)
            pm == AfterAll.pm
        IN /\ \A k \in 1..Len(pm) : Cardinality({ i \in 1..Len(raw) : raw[i] = pm[k][1] }) <= 1
           /\ Cardinality({ i \in 1..Len(ck_out.chunks) : ck_out.chunks[i][2] }) <= Len(pm)

\* The snapshot with its entries in the opposite order.
Reversed(nicks) == [k \in 1..Len(nicks) |-> nicks[Len(nicks) + 1 - k]]

(* C19: the substituted text and the chunk list do not depend on the      *)
(* order of the nickname snapshot: the same entries in the opposite order *)
(* give the same result, also when one name is a substring of another.    *)
C19_OrderFree ==
    ck_pc = "done" =>
        /\ substituted_text(ck_text, Reversed(ck_nicks)) = substituted_text(ck_text, ck_nicks)
        /\ preprocess_chunking(ck_dict, ck_text, Reversed(ck_nicks)) = ck_out

\* No name of the snapshot occurs in another name or in a transliteration.
C19_NamesApart ==
    \A k \in 1..Len(ck_nicks), k2 \in 1..Len(ck_nicks) :
        /\ k # k2 => ~Contains(ck_nicks[k2][1], ck_nicks[k][1])
        /\ ~Contains(ck_nicks[k2][2], ck_nicks[k][1])

\* What does hold: the order is irrelevant for such snapshots.
C19_OrderFreeForNamesApart ==
    (ck_pc = "done" /\ C19_NamesApart) =>
        preprocess_chunking(ck_dict, ck_text, Reversed(ck_nicks)) = ck_out

----------------------------------------------------------------------------
(* Chunk order and batch mapping *)

\* The chunks of message m that are sent to the translator.
SentOf(m) == { c \in 1..Len(bt_out.chunks[m]) : ~batch_passes(bt_out.chunks[m][c]) }

\* How many chunks of the messages before m are sent.
RECURSIVE SentBefore(_)
SentBefore(m) == IF m = 1 THEN 0 ELSE SentBefore(m - 1) + Cardinality(SentOf(m - 1))

\* The position of chunk c of message m among all chunks sent, in message
\* order and chunk order.
OwnIndex(m, c) == SentBefore(m) + Cardinality({ j \in SentOf(m) : j <= c })

\* The entries of chunk_mapping for chunk c of message m.
EntriesOf(m, c) ==
    { k \in 1..Len(bt_out.mapping) : bt_out.mapping[k].msg = m /\ bt_out.mapping[k].chunk = c }

\* The piece of chunk c of message m: its own text when it bypasses the
\* translator, the cleaned output at its own index when it is sent.
PieceOf(m, c) ==
    IF batch_passes(bt_out.chunks[m][c]) THEN bt_out.chunks[m][c][1]
    ELSE seg_out_of(bt_out.outs[OwnIndex(m, c)])

PiecesOf(m) == [c \in 1..Len(bt_out.chunks[m]) |-> PieceOf(m, c)]

(* C20: in a processed batch every chunk of every message has exactly one *)
(* entry in chunk_mapping, in message order and chunk order; the indices  *)
(* of the chunks sent to the translator are distinct, the prompt at a     *)
(* chunk's index is that chunk's text and its piece is the output at that *)
(* index; the text of message m is built from the pieces of message m's   *)
(* chunks alone, one per chunk, in the order of preprocess_chunking.      *)
C20_OrderAndMapping ==
    BatchDone =>
        /\ Len(bt_out.chunks) = Len(bt_msgs)
        /\ \A k \in 1..Len(bt_out.mapping) :
                /\ bt_out.mapping[k].msg \in 1..Len(bt_msgs)
                /\ bt_out.mapping[k].chunk \in 1..Len(bt_out.chunks[bt_out.mapping[k].msg])
        /\ \A k \in 1..Len(bt_out.mapping), k2 \in 1..Len(bt_out.mapping) :
                /\ (k < k2) =>
                        \/ bt_out.mapping[k].msg < bt_out.mapping[k2].msg
                        \/ /\ bt_out.mapping[k].msg = bt_out.mapping[k2].msg
                           /\ bt_out.mapping[k].chunk < bt_out.mapping[k2].chunk
                /\ (k # k2 /\ ~bt_out.mapping[k].passed /\ ~bt_out.mapping[k2].passed) =>
                        bt_out.mapping[k].index # bt_out.mapping[k2].index
        /\ \A m \in 1..Len(bt_msgs) :
                /\ \A c \in 1..Len(bt_out.chunks[m]) :
                        /\ Cardinality(EntriesOf(m, c)) = 1
                        /\ \A k \in EntriesOf(m, c) :
                                /\ bt_out.mapping[k].passed = batch_passes(bt_out.chunks[m][c])
                                /\ bt_out.mapping[k].passed =>
                                        bt_out.mapping[k].text = bt_out.chunks[m][c][1]
                                /\ ~bt_out.mapping[k].passed =>
                                        /\ bt_out.mapping[k].index = OwnIndex(m, c)
                                        /\ bt_out.mapping[k].index \in 1..Len(bt_out.outs)
                                        /\ bt_out.prompts[bt_out.mapping[k].index]
                                                = bt_out.chunks[m][c][1]
                /\ bt_out.txts[m] = joined_text(PiecesOf(m))
                /\ bt_out.results[m].translated = final_text(PiecesOf(m))

\* A batch of two messages was processed: the first has a chunk that is sent
\* and a protected chunk, the second a chunk that is sent, and the two
\* outputs differ.
C20_Witness ==
    /\ BatchDone
    /\ Len(bt_msgs) = 2
    /\ Len(bt_out.chunks[1]) = 2
    /\ bt_out.chunks[1][2][2]
    /\ SentOf(1) = {1}
    /\ SentOf(2) = {1}
    /\ Len(bt_out.outs) = 2
    /\ bt_out.outs[1] # bt_out.outs[2]
    /\ bt_out.txts[2] = bt_out.outs[2]

\* The ideographs of a text sent to the translator and returned as they are
\* come back as their Hangul readings, the new form read as its old form.
IdeographsRead ==
    (C8_Identity /\ bt_msgs = <<Message(<<23398, 26657>>, None, <<55>>)>>) =>
        bt_out.results[1].translated = <<54617, 44368>>

IdeographsReadReached ==
    C8_Identity /\ bt_msgs = <<Message(<<23398, 26657>>, None, <<55>>)>>

====
